---- MODULE Spec2Model ----
(***************************************************************************)
(* Validation & evidence engine of AuditEng V2 (alecont1/vaudit2.0).       *)
(*                                                                         *)
(* The engine is a library of pure functions.  Every function is an        *)
(* operator computed the way the Python source computes it; a behaviour    *)
(* of the specification is one call: Init draws the call (the function     *)
(* and its arguments) from bounded sets, and the function's action applies *)
(* it and stores what the call returned.                                   *)
(*                                                                         *)
(* Around the library is the service: the tables of the database           *)
(* (documents, validation_results, users, sessions), the requests being    *)
(* served and the clock.  A request handler is a coroutine; its actions    *)
(* are the stretches between the awaits at which other requests can run.   *)
(*                                                                         *)
(* Representation.                                                         *)
(*   str            a sequence of one-character strings, <<"A","b">>       *)
(*   None (a str)   NoneStr, a one-element sequence no real str equals     *)
(*   ExtractedField [present, value, location]; present = FALSE models the *)
(*                  containing Optional being None                         *)
(*   date           [kind |-> "date", y, m, d]; kind "None" is Python's    *)
(*                  None, kind "OverflowError" an exception that left the  *)
(*                  function                                               *)
(*   Finding        a record with the seven fields of the pydantic model;  *)
(*                  message holds the f-string's template and the values   *)
(*                  formatted into it; a fixed text is held as one element *)
(***************************************************************************)
EXTENDS Integers, Sequences, FiniteSets, TLC

VARIABLES op, arg, ret, pc,
          documents, validation_results, users, sessions, requests, now

\* the call of a function of the library
callVars == <<op, arg, ret, pc>>

\* the tables of the database, the requests being served and the clock
serviceVars == <<documents, validation_results, users, sessions, requests, now>>

vars == <<op, arg, ret, pc, documents, validation_results, users, sessions, requests, now>>

(***************************************************************************)
(* Python str primitives                                                   *)
(***************************************************************************)
NoneStr == <<"<None>">>

DigitChars == <<"0", "1", "2", "3", "4", "5", "6", "7", "8", "9">>

IsDigit(c) == \E i \in 1..Len(DigitChars) : DigitChars[i] = c

DigitVal(c) == (CHOOSE i \in 1..Len(DigitChars) : DigitChars[i] = c) - 1

\* n written in decimal with at least w digits (zero padded)
RECURSIVE Pad(_, _)
Pad(n, w) ==
    IF n < 10 /\ w <= 1 THEN <<DigitChars[n + 1]>>
    ELSE Pad(n \div 10, w - 1) \o <<DigitChars[(n % 10) + 1]>>

IsSpace(c) == c \in {" ", "\t"}

RECURSIVE LStrip(_)
LStrip(s) == IF s # <<>> /\ IsSpace(Head(s)) THEN LStrip(Tail(s)) ELSE s

RECURSIVE RStrip(_)
RStrip(s) ==
    IF s # <<>> /\ IsSpace(s[Len(s)]) THEN RStrip(SubSeq(s, 1, Len(s) - 1)) ELSE s

\* str.strip()
Strip(s) == RStrip(LStrip(s))

\* str.split(sep) for a one-character separator: always at least one part
RECURSIVE Split(_, _)
Split(s, sep) ==
    IF \E i \in 1..Len(s) : s[i] = sep
    THEN LET i == CHOOSE k \in 1..Len(s) :
                      s[k] = sep /\ \A j \in 1..(k - 1) : s[j] # sep
         IN  <<SubSeq(s, 1, i - 1)>> \o Split(SubSeq(s, i + 1, Len(s)), sep)
    ELSE <<s>>

AllDigits(s) == \A i \in 1..Len(s) : IsDigit(s[i])

\* the characters of the model's strings, in code point order
CharOrder ==
    <<"\t", " ", "'", "+", ",", "-", ".", "/",
      "0", "1", "2", "3", "4", "5", "6", "7", "8", "9",
      "A", "B", "C", "D", "E", "F", "G", "H", "I", "J", "K", "L", "M", "N", "O", "P",
      "Q", "R", "S", "T", "U", "V", "W", "X", "Y", "Z",
      "a", "b", "c", "d", "e", "f", "g", "h", "i", "j", "k", "l", "m", "n", "o", "p",
      "q", "r", "s", "t", "u", "v", "w", "x", "y", "z">>

CodeRank(c) == CHOOSE i \in 1..Len(CharOrder) : CharOrder[i] = c

IsLowerLetter(c) == CodeRank(c) >= CodeRank("a") /\ CodeRank(c) <= CodeRank("z")

IsUpperLetter(c) == CodeRank(c) >= CodeRank("A") /\ CodeRank(c) <= CodeRank("Z")

\* str.upper()
Upper(s) ==
    [i \in 1..Len(s) |->
        IF IsLowerLetter(s[i])
        THEN CharOrder[CodeRank(s[i]) - CodeRank("a") + CodeRank("A")]
        ELSE s[i]]

\* str.lower()
Lower(s) ==
    [i \in 1..Len(s) |->
        IF IsUpperLetter(s[i])
        THEN CharOrder[CodeRank(s[i]) - CodeRank("A") + CodeRank("a")]
        ELSE s[i]]

\* str.replace(old, new) for one-character old and new
Replace(s, old, new) == [i \in 1..Len(s) |-> IF s[i] = old THEN new ELSE s[i]]

\* str.__lt__: lexicographic by code point
RECURSIVE StrLess(_, _)
StrLess(a, b) ==
    IF b = <<>> THEN FALSE
    ELSE IF a = <<>> THEN TRUE
    ELSE IF Head(a) = Head(b) THEN StrLess(Tail(a), Tail(b))
    ELSE CodeRank(Head(a)) < CodeRank(Head(b))

\* sorted(set of str)
RECURSIVE Sorted(_)
Sorted(S) ==
    IF S = {} THEN <<>>
    ELSE LET least == CHOOSE x \in S : \A y \in S \ {x} : StrLess(x, y)
         IN  <<least>> \o Sorted(S \ {least})

\* sep.join(list of str)
RECURSIVE Join(_, _)
Join(parts, sep) ==
    IF parts = <<>> THEN <<>>
    ELSE IF Len(parts) = 1 THEN parts[1]
    ELSE parts[1] \o sep \o Join(Tail(parts), sep)

\* the largest value a C int holds: datetime.date takes its arguments as C ints
CIntMax == (2^30 - 1) * 2 + 1

\* value of a digit string; big = the value exceeds CIntMax (v is then unused)
RECURSIVE DigitsValue(_, _)
DigitsValue(s, acc) ==
    IF s = <<>> THEN [v |-> acc, big |-> FALSE]
    ELSE LET d == DigitVal(Head(s))
         IN  IF acc > (CIntMax - d) \div 10
             THEN [v |-> 0, big |-> TRUE]
             ELSE DigitsValue(Tail(s), acc * 10 + d)

\* int(s): surrounding whitespace and one sign are accepted; ok = FALSE is
\* ValueError
IntOf(s) ==
    LET t    == Strip(s)
        sgn  == t # <<>> /\ Head(t) \in {"+", "-"}
        body == IF sgn THEN Tail(t) ELSE t
        bad  == [ok |-> FALSE, v |-> 0, big |-> FALSE]
    IN  IF body = <<>> \/ ~AllDigits(body) THEN bad
        ELSE LET n == DigitsValue(body, 0)
             IN  [ok  |-> TRUE,
                  v   |-> IF sgn /\ Head(t) = "-" THEN 0 - n.v ELSE n.v,
                  big |-> n.big]

(***************************************************************************)
(* Python float                                                            *)
(*                                                                         *)
(* A float is [kind, neg, mag]: kind "finite" with magnitude mag in        *)
(* hundredths, "inf", "nan", or "ValueError" for a string float() rejects. *)
(* Decimal strings carry at most two fractional digits, and no exponent or *)
(* underscore; parsing and comparing such values is exact.  Subtraction is *)
(* exact for multiples of 0.25, which is what the phase readings are drawn *)
(* from.                                                                   *)
(***************************************************************************)
Scale == 10 * 10

Float(kind, neg, mag) == [kind |-> kind, neg |-> neg, mag |-> mag]

NotAFloat == Float("ValueError", FALSE, 0)

\* float(s)
FloatOf(s) ==
    LET t     == Lower(Strip(s))
        sgn   == t # <<>> /\ Head(t) \in {"+", "-"}
        neg   == sgn /\ Head(t) = "-"
        body  == IF sgn THEN Tail(t) ELSE t
        parts == Split(body, ".")
        whole == parts[1]
        frac  == IF Len(parts) = 2 THEN parts[2] ELSE <<>>
    IN  IF body = <<"n", "a", "n">> THEN Float("nan", neg, 0)
        ELSE IF body \in {<<"i", "n", "f">>, <<"i", "n", "f", "i", "n", "i", "t", "y">>}
        THEN Float("inf", neg, 0)
        ELSE IF \/ Len(parts) > 2
                \/ ~AllDigits(whole) \/ ~AllDigits(frac)
                \/ (whole = <<>> /\ frac = <<>>)
                \/ Len(frac) > 2
        THEN NotAFloat
        ELSE Float("finite", neg,
                   DigitsValue(whole, 0).v * Scale
                       + DigitsValue(frac \o [i \in 1..(2 - Len(frac)) |-> "0"], 0).v)

\* the position of a float that is not nan on the extended real line
FloatKey(x) ==
    IF x.kind = "inf" THEN (IF x.neg THEN 0 - CIntMax ELSE CIntMax)
    ELSE IF x.neg THEN 0 - x.mag ELSE x.mag

\* float.__gt__, __lt__, __ne__: every ordering comparison with nan is False
FloatGreater(x, y) == x.kind # "nan" /\ y.kind # "nan" /\ FloatKey(x) > FloatKey(y)

FloatLess(x, y) == FloatGreater(y, x)

FloatNotEqual(x, y) == x.kind = "nan" \/ y.kind = "nan" \/ FloatKey(x) # FloatKey(y)

\* float.__sub__
FloatSub(x, y) ==
    IF x.kind = "nan" \/ y.kind = "nan" THEN Float("nan", FALSE, 0)
    ELSE IF x.kind = "inf" /\ y.kind = "inf"
    THEN (IF x.neg = y.neg THEN Float("nan", FALSE, 0) ELSE Float("inf", x.neg, 0))
    ELSE IF x.kind = "inf" THEN Float("inf", x.neg, 0)
    ELSE IF y.kind = "inf" THEN Float("inf", ~y.neg, 0)
    ELSE LET diff == FloatKey(x) - FloatKey(y)
         IN  IF diff < 0 THEN Float("finite", TRUE, 0 - diff)
             ELSE Float("finite", x.neg /\ ~y.neg /\ diff = 0, diff)

\* a constant of the source given in hundredths
Const(hundredths) == Float("finite", FALSE, hundredths)

\* the digits of a fraction given in hundredths, as repr() writes them
FracStr(h) ==
    IF h % 10 = 0 THEN <<DigitChars[(h \div 10) + 1]>>
    ELSE <<DigitChars[(h \div 10) + 1], DigitChars[(h % 10) + 1]>>

\* str(x), repr(x) and f"{x}"
FloatStr(x) ==
    IF x.kind = "nan" THEN <<"n", "a", "n">>
    ELSE (IF x.neg THEN <<"-">> ELSE <<>>)
         \o (IF x.kind = "inf" THEN <<"i", "n", "f">>
             ELSE Pad(x.mag \div Scale, 1) \o <<".">> \o FracStr(x.mag % Scale))

\* f"{x:.1f}": one fractional digit, an exact tie going to the even digit
FloatFixed1(x) ==
    IF x.kind = "nan" THEN <<"n", "a", "n">>
    ELSE (IF x.neg THEN <<"-">> ELSE <<>>)
         \o (IF x.kind = "inf" THEN <<"i", "n", "f">>
             ELSE LET tenths == x.mag \div 10
                      rest   == x.mag % 10
                      up     == rest > 5 \/ (rest = 5 /\ tenths % 2 = 1)
                      r      == IF up THEN tenths + 1 ELSE tenths
                  IN  Pad(r \div 10, 1) \o <<".">> \o <<DigitChars[(r % 10) + 1]>>)

\* max(list) and min(list): the first element is kept unless a later one
\* compares greater (less)
RECURSIVE FloatMaxFrom(_, _)
FloatMaxFrom(best, rest) ==
    IF rest = <<>> THEN best
    ELSE FloatMaxFrom(IF FloatGreater(Head(rest), best) THEN Head(rest) ELSE best,
                      Tail(rest))

RECURSIVE FloatMinFrom(_, _)
FloatMinFrom(best, rest) ==
    IF rest = <<>> THEN best
    ELSE FloatMinFrom(IF FloatLess(Head(rest), best) THEN Head(rest) ELSE best,
                      Tail(rest))

(***************************************************************************)
(* datetime.date                                                           *)
(***************************************************************************)
NoDate == [kind |-> "None", y |-> 0, m |-> 0, d |-> 0]

RaisedOverflow == [kind |-> "OverflowError", y |-> 0, m |-> 0, d |-> 0]

Date(y, m, d) == [kind |-> "date", y |-> y, m |-> m, d |-> d]

IsLeap(y) == (y % 4 = 0 /\ y % 100 # 0) \/ y % 400 = 0

DaysInMonth(y, m) ==
    IF m = 2 THEN (IF IsLeap(y) THEN 29 ELSE 28)
    ELSE IF m \in {4, 6, 9, 11} THEN 30 ELSE 31

\* date(year, month, day) on three int() results: OverflowError when an
\* argument does not fit a C int, ValueError (caught by every caller, which
\* returns None) when it is out of range
MakeDate(y, m, d) ==
    IF y.big \/ m.big \/ d.big THEN RaisedOverflow
    ELSE IF /\ y.v \in 1..9999
            /\ m.v \in 1..12
            /\ d.v \in 1..DaysInMonth(y.v, m.v)
         THEN Date(y.v, m.v, d.v)
         ELSE NoDate

\* str(date), date.isoformat(): YYYY-MM-DD
DateStr(d) == Pad(d.y, 4) \o <<"-">> \o Pad(d.m, 2) \o <<"-">> \o Pad(d.d, 2)

\* date.__le__
DateLessEq(a, b) ==
    \/ a.y < b.y
    \/ a.y = b.y /\ a.m < b.m
    \/ a.y = b.y /\ a.m = b.m /\ a.d <= b.d

\* date.__lt__
DateLess(a, b) ==
    \/ a.y < b.y
    \/ a.y = b.y /\ a.m < b.m
    \/ a.y = b.y /\ a.m = b.m /\ a.d < b.d

(***************************************************************************)
(* date_parser.py                                                          *)
(***************************************************************************)
\* _ISO_PATTERN  ^\d{4}-\d{2}-\d{2}$
ISO_PATTERN(v) ==
    /\ Len(v) = 10
    /\ v[5] = "-" /\ v[8] = "-"
    /\ \A i \in {1, 2, 3, 4, 6, 7, 9, 10} : IsDigit(v[i])

\* ^\d{1,2}/\d{1,2}/\d{n}$
SlashPattern(v, n) ==
    LET parts == Split(v, "/")
    IN  /\ Len(parts) = 3
        /\ \A i \in 1..3 : AllDigits(parts[i])
        /\ Len(parts[1]) \in {1, 2}
        /\ Len(parts[2]) \in {1, 2}
        /\ Len(parts[3]) = n

\* _DD_MM_YYYY_PATTERN
DD_MM_YYYY_PATTERN(v) == SlashPattern(v, 4)

\* _MM_DD_YY_PATTERN
MM_DD_YY_PATTERN(v) == SlashPattern(v, 2)

detect_format(value) ==
    IF value = <<>> THEN "None"
    ELSE LET v == Strip(value)
         IN  IF ISO_PATTERN(v) THEN "ISO"
             ELSE IF DD_MM_YYYY_PATTERN(v) THEN "DD_MM_YYYY"
             ELSE IF MM_DD_YY_PATTERN(v) THEN "MM_DD_YY"
             ELSE "None"

\* int() of the first three parts; IndexError and ValueError both end in None
AllOk(ints) == IF \A i \in 1..Len(ints) : ints[i].ok THEN ints ELSE <<>>

ThreeInts(parts) ==
    IF Len(parts) < 3 THEN <<>>
    ELSE AllOk(<<IntOf(parts[1]), IntOf(parts[2]), IntOf(parts[3])>>)

\* return date(year, month, day), the three taken at positions y, m, d of n;
\* n = <<>> is the except branch
DateOfInts(n, y, m, d) == IF n = <<>> THEN NoDate ELSE MakeDate(n[y], n[m], n[d])

\* year = 2000 + year_2digit is a Python int and may itself exceed a C int
Year2000(yy) ==
    IF yy.big \/ yy.v > CIntMax - 2000
    THEN [ok |-> TRUE, v |-> 0, big |-> TRUE]
    ELSE [ok |-> TRUE, v |-> 2000 + yy.v, big |-> FALSE]

\* the 2-digit year of n replaced by the 4-digit one
WithYear2000(n) == IF n = <<>> THEN <<>> ELSE <<n[1], n[2], Year2000(n[3])>>

parse_iso(value) == DateOfInts(ThreeInts(Split(value, "-")), 1, 2, 3)

parse_dd_mm_yyyy(value) == DateOfInts(ThreeInts(Split(value, "/")), 3, 2, 1)

\* the 2-digit-year format read day first
parse_mm_dd_yy_day_first(value) ==
    DateOfInts(WithYear2000(ThreeInts(Split(value, "/"))), 3, 2, 1)

parse_mm_dd_yy(value) == DateOfInts(WithYear2000(ThreeInts(Split(value, "/"))), 3, 1, 2)

try_format(value, fmt) ==
    IF fmt = "ISO" THEN parse_iso(value)
    ELSE IF fmt = "DD_MM_YYYY" THEN parse_dd_mm_yyyy(value)
    ELSE IF fmt = "MM_DD_YY" THEN parse_mm_dd_yy(value)
    ELSE NoDate

\* hint = "None" is the call without a hint
\* result if it is a date (or an exception), else the later attempt
OrElse(result, later) == IF result # NoDate THEN result ELSE later

\* parse_date after value = value.strip(): the hinted format first, then the
\* detected one (try_format of no format is None)
parse_stripped(value, hint) ==
    IF value = <<>> THEN NoDate
    ELSE OrElse(IF hint # "None" THEN try_format(value, hint) ELSE NoDate,
                try_format(value, detect_format(value)))

\* hint = "None" is the call without a hint
parse_date(raw, hint) ==
    IF raw = NoneStr THEN NoDate ELSE parse_stripped(Strip(raw), hint)

(***************************************************************************)
(* evidence.py                                                             *)
(***************************************************************************)
Finding(rule_id, severity, message, field_name, found_value, expected_value, location) ==
    [rule_id        |-> rule_id,
     severity       |-> severity,
     message        |-> message,
     field_name     |-> field_name,
     found_value    |-> found_value,
     expected_value |-> expected_value,
     location       |-> location]

\* an f-string message: the template and the values formatted into it
Msg(template, args) == [template |-> template, args |-> args]

\* the verdict of the last finding alone
compute_status_last_wins(findings) ==
    IF findings = <<>> THEN "APPROVED"
    ELSE IF findings[Len(findings)].severity = "ERROR" THEN "REJECTED"
    ELSE IF findings[Len(findings)].severity = "WARNING" THEN "REVIEW_NEEDED"
    ELSE "APPROVED"

\* WARNING tested before ERROR
compute_status_warning_first(findings) ==
    LET has_error   == \E i \in 1..Len(findings) : findings[i].severity = "ERROR"
        has_warning == \E i \in 1..Len(findings) : findings[i].severity = "WARNING"
    IN  IF has_warning THEN "REVIEW_NEEDED"
        ELSE IF has_error THEN "REJECTED"
        ELSE "APPROVED"

compute_status(findings) ==
    LET has_error   == \E i \in 1..Len(findings) : findings[i].severity = "ERROR"
        has_warning == \E i \in 1..Len(findings) : findings[i].severity = "WARNING"
    IN  IF has_error THEN "REJECTED"
        ELSE IF has_warning THEN "REVIEW_NEEDED"
        ELSE "APPROVED"

(***************************************************************************)
(* extraction.py                                                           *)
(***************************************************************************)
\* FieldLocation, told apart by its page; NoLocation is location = None
Location(page) == [page |-> page]

NoLocation == [page |-> 0 - 1]

\* ExtractedField(value, location) held by an Optional that is not None
Field(value, location) == [present |-> TRUE, value |-> value, location |-> location]

\* the Optional[ExtractedField] that is None
AbsentField == [present |-> FALSE, value |-> NoneStr, location |-> NoLocation]

(***************************************************************************)
(* calibration.py                                                          *)
(***************************************************************************)
\* the cases of validate_calibration, with exp = calibration.expiration_date
\* and parsed = parse_date(exp.value)
ExpirationFinding(exp, parsed, test_date, rule_id) ==
        IF ~exp.present
        THEN <<Finding(rule_id, "WARNING",
                       Msg("Missing calibration expiration date - manual review required",
                           <<>>),
                       "expiration_date", NoneStr, NoneStr, NoLocation)>>
        ELSE IF exp.value = NoneStr
        THEN <<Finding(rule_id, "WARNING",
                       Msg("Missing calibration expiration date - manual review required",
                           <<>>),
                       "expiration_date", NoneStr, NoneStr, exp.location)>>
        ELSE IF parsed = NoDate
        THEN <<Finding(rule_id, "WARNING",
                       Msg("Could not parse expiration date '{}' - manual review required",
                           <<exp.value>>),
                       "expiration_date", exp.value, NoneStr, exp.location)>>
        ELSE IF DateLess(parsed, test_date)
        THEN <<Finding(rule_id, "ERROR",
                       Msg("Calibration expired on {}, test performed on {}",
                           <<DateStr(parsed), DateStr(test_date)>>),
                       "expiration_date", DateStr(parsed),
                       <<">", "=", " ">> \o DateStr(test_date), exp.location)>>
        ELSE <<Finding(rule_id, "INFO",
                       Msg("Calibration valid until {}", <<DateStr(parsed)>>),
                       "expiration_date", DateStr(parsed), NoneStr, exp.location)>>

\* a validator that is stricter for thermography cameras: under THERMO-03 a
\* certificate without a readable expiration date is an ERROR
validate_calibration_strict_thermo(calibration, test_date, rule_id) ==
    LET findings == ExpirationFinding(calibration.expiration_date,
                                      parse_date(calibration.expiration_date.value, "None"),
                                      test_date, rule_id)
    IN  IF rule_id = "THERMO-03" /\ findings[1].severity = "WARNING"
        THEN <<[findings[1] EXCEPT !.severity = "ERROR"]>>
        ELSE findings

validate_calibration(calibration, test_date, rule_id) ==
    ExpirationFinding(calibration.expiration_date,
                      parse_date(calibration.expiration_date.value, "None"),
                      test_date, rule_id)

(***************************************************************************)
(* serial.py                                                               *)
(***************************************************************************)
\* the fields whose value is not None, in input order
RECURSIVE NonNull(_)
NonNull(fields) ==
    IF fields = <<>> THEN <<>>
    ELSE IF Head(fields).value # NoneStr THEN <<Head(fields)>> \o NonNull(Tail(fields))
    ELSE NonNull(Tail(fields))

\* the value trimmed but in the case it was written in
NormalizedNoUpper(field) == Strip(field.value)

\* the value in upper case but with its surrounding whitespace
NormalizedNoStrip(field) == Upper(field.value)

\* field.value.strip().upper()
Normalized(field) == Upper(Strip(field.value))

SerialInfoAt(rule_id, field) ==
    Finding(rule_id, "INFO", Msg("Serial number '{}' found at this location",
                                 <<Normalized(field)>>),
            "serial_number", Normalized(field), NoneStr, field.location)

validate_serial_consistency(serial_numbers, rule_id) ==
    LET normalized_serials == NonNull(serial_numbers)
        unique_values ==
            {Normalized(normalized_serials[i]) : i \in 1..Len(normalized_serials)}
    IN  IF Len(serial_numbers) < 2
        THEN <<Finding(rule_id, "INFO",
                       Msg("Serial number consistency check skipped (insufficient data)",
                           <<>>),
                       "serial_number",
                       IF serial_numbers # <<>> THEN serial_numbers[1].value ELSE NoneStr,
                       NoneStr,
                       IF serial_numbers # <<>> THEN serial_numbers[1].location
                       ELSE NoLocation)>>
        ELSE IF Len(normalized_serials) < 2
        THEN <<Finding(rule_id, "INFO",
                       Msg("Serial number consistency check skipped (insufficient valid values)",
                           <<>>),
                       "serial_number", NoneStr, NoneStr, NoLocation)>>
        ELSE IF Cardinality(unique_values) = 1
        THEN LET serial_value == CHOOSE v \in unique_values : TRUE
             IN  <<Finding(rule_id, "INFO",
                           Msg("Serial numbers consistent: {} (found in {} locations)",
                               <<serial_value, Pad(Len(normalized_serials), 1)>>),
                           "serial_number", serial_value, NoneStr,
                           normalized_serials[1].location)>>
        ELSE <<Finding(rule_id, "ERROR", Msg("Serial number mismatch detected", <<>>),
                       "serial_number", Join(Sorted(unique_values), <<",", " ">>),
                       <<"All serial numbers should match">>,
                       normalized_serials[1].location)>>
             \o [i \in 1..Len(normalized_serials) |->
                    SerialInfoAt(rule_id, normalized_serials[i])]

(***************************************************************************)
(* camera_config.py                                                        *)
(***************************************************************************)
\* thermography is <<>> for None and <<data>> otherwise
validate_camera_config(thermography, rule_id) ==
    IF thermography = <<>> THEN <<>>
    ELSE
    LET camera      == thermography[1].camera_ambient_temp
        datalogger  == thermography[1].datalogger_temp
        camera_temp == FloatOf(camera.value)
        datalogger_temp == FloatOf(datalogger.value)
    IN  IF ~camera.present \/ camera.value = NoneStr
        THEN <<Finding(rule_id, "WARNING",
                       Msg("Missing camera ambient temperature - manual review required",
                           <<>>),
                       "camera_ambient_temp", NoneStr, NoneStr, camera.location)>>
        ELSE IF ~datalogger.present \/ datalogger.value = NoneStr
        THEN <<Finding(rule_id, "WARNING",
                       Msg("Missing datalogger temperature - manual review required", <<>>),
                       "datalogger_temp", NoneStr, NoneStr, datalogger.location)>>
        ELSE IF camera_temp = NotAFloat
        THEN <<Finding(rule_id, "WARNING",
                       Msg("Could not parse camera ambient temperature '{}' - manual review required",
                           <<camera.value>>),
                       "camera_ambient_temp", camera.value, NoneStr, camera.location)>>
        ELSE IF datalogger_temp = NotAFloat
        THEN <<Finding(rule_id, "WARNING",
                       Msg("Could not parse datalogger temperature '{}' - manual review required",
                           <<datalogger.value>>),
                       "datalogger_temp", datalogger.value, NoneStr, datalogger.location)>>
        ELSE IF FloatNotEqual(camera_temp, datalogger_temp)
        THEN <<Finding(rule_id, "ERROR",
                       Msg("Camera ambient temperature ({}C) does not match datalogger ({}C)",
                           <<FloatStr(camera_temp), FloatStr(datalogger_temp)>>),
                       "camera_ambient_temp", FloatStr(camera_temp),
                       FloatStr(datalogger_temp), camera.location)>>
        ELSE <<Finding(rule_id, "INFO",
                       Msg("Camera configuration valid - ambient temperature matches datalogger ({}C)",
                           <<FloatStr(camera_temp)>>),
                       "camera_ambient_temp", FloatStr(camera_temp), NoneStr,
                       camera.location)>>

(***************************************************************************)
(* phase_delta.py                                                          *)
(***************************************************************************)
DELTA_WARNING_THRESHOLD == Const(3 * Scale)

DELTA_ERROR_THRESHOLD == Const(15 * Scale)

\* a reading whose value float() accepts
ReadingParses(reading) ==
    /\ reading.value.present
    /\ reading.value.value # NoneStr
    /\ FloatOf(reading.value.value) # NotAFloat

\* every reading as a (label, temperature) pair, a reading that does not
\* parse counted as 0 degrees
RECURSIVE ParsedReadingsZeroFilled(_)
ParsedReadingsZeroFilled(readings) ==
    IF readings = <<>> THEN <<>>
    ELSE <<[label |-> Head(readings).location_label,
            temp  |-> IF ReadingParses(Head(readings))
                      THEN FloatOf(Head(readings).value.value)
                      ELSE Const(0)]>> \o ParsedReadingsZeroFilled(Tail(readings))

\* the (label, temperature) pairs of the readings that parse, in input order
RECURSIVE ParsedReadings(_)
ParsedReadings(readings) ==
    IF readings = <<>> THEN <<>>
    ELSE (IF ReadingParses(Head(readings))
          THEN <<[label |-> Head(readings).location_label,
                  temp  |-> FloatOf(Head(readings).value.value)]>>
          ELSE <<>>) \o ParsedReadings(Tail(readings))

\* the labels of all the readings, in input order
AllPhases(readings) == [i \in 1..Len(readings) |-> readings[i].location_label]

\* the labels of the readings that do not parse, in input order
RECURSIVE UnparseablePhases(_)
UnparseablePhases(readings) ==
    IF readings = <<>> THEN <<>>
    ELSE (IF ReadingParses(Head(readings)) THEN <<>>
          ELSE <<Head(readings).location_label>>) \o UnparseablePhases(Tail(readings))

\* phase_labels[temperatures.index(t)]: list.index finds the first element
\* that is t itself or equal to t
LabelOf(parsed, t) ==
    parsed[CHOOSE i \in 1..Len(parsed) :
               /\ parsed[i].temp = t \/ ~FloatNotEqual(parsed[i].temp, t)
               /\ \A j \in 1..(i - 1) :
                      ~(parsed[j].temp = t \/ ~FloatNotEqual(parsed[j].temp, t))].label

PhaseDeltaFinding(rule_id, parsed) ==
    LET temperatures == [i \in 1..Len(parsed) |-> parsed[i].temp]
        max_temp  == FloatMaxFrom(temperatures[1], Tail(temperatures))
        min_temp  == FloatMinFrom(temperatures[1], Tail(temperatures))
        delta     == FloatSub(max_temp, min_temp)
        max_phase == LabelOf(parsed, max_temp)
        min_phase == LabelOf(parsed, min_temp)
        detail    == <<FloatFixed1(delta), max_phase, FloatStr(max_temp), min_phase,
                       FloatStr(min_temp)>>
    IN  IF FloatGreater(delta, DELTA_ERROR_THRESHOLD)
        THEN Finding(rule_id, "ERROR",
                     Msg("Phase delta {:.1f}C exceeds critical threshold of 15.0C ({}: {}C, {}: {}C)",
                         detail),
                     "phase_delta", FloatFixed1(delta) \o <<"C">>, <<"<= 15.0C">>,
                     NoLocation)
        ELSE IF FloatGreater(delta, DELTA_WARNING_THRESHOLD)
        THEN Finding(rule_id, "WARNING",
                     Msg("Phase delta {:.1f}C exceeds review threshold of 3.0C ({}: {}C, {}: {}C)",
                         detail),
                     "phase_delta", FloatFixed1(delta) \o <<"C">>, <<"<= 3.0C">>,
                     NoLocation)
        ELSE Finding(rule_id, "INFO",
                     Msg("Phase delta {:.1f}C within normal range (<= 3.0C)",
                         <<FloatFixed1(delta)>>),
                     "phase_delta", FloatFixed1(delta) \o <<"C">>, <<"<= 3.0C">>,
                     NoLocation)

validate_phase_delta(phase_readings, rule_id) ==
    LET parsed             == ParsedReadings(phase_readings)
        unparseable_phases == UnparseablePhases(phase_readings)
        warning ==
            IF unparseable_phases = <<>> THEN <<>>
            ELSE <<Finding(rule_id, "WARNING",
                           Msg("Could not parse temperature value(s) for phase(s): {} - manual review required",
                               <<Join(unparseable_phases, <<",", " ">>)>>),
                           "phase_temperatures",
                           Join(unparseable_phases, <<",", " ">>),
                           <<"numeric temperature value">>, NoLocation)>>
    IN  IF Len(phase_readings) < 2
        THEN <<Finding(rule_id, "INFO",
                       Msg("Phase delta check skipped - insufficient data (need at least 2 phase readings)",
                           <<>>),
                       "phase_temperatures", Pad(Len(phase_readings), 1), <<">= 2">>,
                       NoLocation)>>
        ELSE IF Len(parsed) < 2
        THEN (IF warning # <<>> THEN warning
              ELSE <<Finding(rule_id, "INFO",
                             Msg("Phase delta check skipped - insufficient valid temperature data",
                                 <<>>),
                             "phase_temperatures", Pad(Len(parsed), 1), <<">= 2">>,
                             NoLocation)>>)
        ELSE warning \o <<PhaseDeltaFinding(rule_id, parsed)>>

(***************************************************************************)
(* grounding_calibration.py, megger_calibration.py                         *)
(***************************************************************************)
\* a wrapper that delegates without its rule_id, leaving validate_calibration
\* its default
validate_grounding_calibration_default_rule(grounding, test_date, rule_id) ==
    IF grounding.calibration = <<>>
    THEN <<Finding(rule_id, "WARNING",
                   Msg("Grounding meter calibration information missing - manual review required",
                       <<>>),
                   "grounding_calibration", NoneStr, NoneStr, NoLocation)>>
    ELSE validate_calibration(grounding.calibration[1], test_date, "VAL-01")

\* data.calibration is <<>> for None and <<CalibrationInfo>> otherwise
validate_grounding_calibration(grounding, test_date, rule_id) ==
    IF grounding.calibration = <<>>
    THEN <<Finding(rule_id, "WARNING",
                   Msg("Grounding meter calibration information missing - manual review required",
                       <<>>),
                   "grounding_calibration", NoneStr, NoneStr, NoLocation)>>
    ELSE validate_calibration(grounding.calibration[1], test_date, rule_id)

\* a wrapper that keeps silent about an absent calibration, as
\* validate_camera_config does about absent thermography data
validate_megger_calibration_silent(megger, test_date, rule_id) ==
    IF megger.calibration = <<>> THEN <<>>
    ELSE validate_calibration(megger.calibration[1], test_date, rule_id)

validate_megger_calibration(megger, test_date, rule_id) ==
    IF megger.calibration = <<>>
    THEN <<Finding(rule_id, "WARNING",
                   Msg("Megger calibration information missing - manual review required",
                       <<>>),
                   "megger_calibration", NoneStr, NoneStr, NoLocation)>>
    ELSE validate_calibration(megger.calibration[1], test_date, rule_id)

(***************************************************************************)
(* grounding_resistance.py                                                 *)
(***************************************************************************)
RESISTANCE_WARNING_THRESHOLD == Const(5 * Scale)

RESISTANCE_ERROR_THRESHOLD == Const(10 * Scale)

validate_grounding_resistance(grounding, rule_id) ==
    LET field      == grounding.resistance_value
        raw_value  == field.value
        resistance == FloatOf(raw_value)
        found      == FloatStr(resistance) \o <<" ohms">>
    IN  IF ~field.present
        THEN <<Finding(rule_id, "WARNING",
                       Msg("Grounding resistance value not found - manual review required",
                           <<>>),
                       "grounding_resistance", NoneStr, <<"numeric resistance in ohms">>,
                       NoLocation)>>
        ELSE IF raw_value = NoneStr \/ Strip(raw_value) = <<>>
        THEN <<Finding(rule_id, "WARNING",
                       Msg("Grounding resistance value is missing or empty - manual review required",
                           <<>>),
                       "grounding_resistance", raw_value, <<"numeric resistance in ohms">>,
                       field.location)>>
        ELSE IF resistance = NotAFloat
        THEN <<Finding(rule_id, "WARNING",
                       Msg("Could not parse grounding resistance '{}' as numeric value - manual review required",
                           <<raw_value>>),
                       "grounding_resistance", raw_value, <<"numeric resistance in ohms">>,
                       field.location)>>
        ELSE IF FloatLess(resistance, Const(0))
        THEN <<Finding(rule_id, "WARNING",
                       Msg("Grounding resistance {} ohms is negative (invalid measurement) - manual review required",
                           <<FloatStr(resistance)>>),
                       "grounding_resistance", found, <<">= 0 ohms">>, field.location)>>
        ELSE IF FloatGreater(resistance, RESISTANCE_ERROR_THRESHOLD)
        THEN <<Finding(rule_id, "ERROR",
                       Msg("Grounding resistance {} ohms exceeds maximum of 10.0 ohms",
                           <<FloatStr(resistance)>>),
                       "grounding_resistance", found, <<"<= 10.0 ohms">>, field.location)>>
        ELSE IF FloatGreater(resistance, RESISTANCE_WARNING_THRESHOLD)
        THEN <<Finding(rule_id, "WARNING",
                       Msg("Grounding resistance {} ohms is borderline - review recommended (threshold: 5.0 ohms)",
                           <<FloatStr(resistance)>>),
                       "grounding_resistance", found, <<"<= 5.0 ohms">>, field.location)>>
        ELSE <<Finding(rule_id, "INFO",
                       Msg("Grounding resistance {} ohms within acceptable range (<= 5.0 ohms)",
                           <<FloatStr(resistance)>>),
                       "grounding_resistance", found, <<"<= 5.0 ohms">>, field.location)>>

(***************************************************************************)
(* test_method.py                                                          *)
(***************************************************************************)
VALID_TEST_METHODS ==
    <<
      [key         |-> <<"f", "a", "l", "l", "-", "o", "f", "-", "p", "o", "t", "e", "n", "t", "i", "a", "l">>,
       aliases     |-> <<<<"f", "a", "l", "l", " ", "o", "f", " ", "p", "o", "t", "e", "n", "t", "i", "a", "l">>,
                        <<"3", "-", "p", "o", "i", "n", "t">>,
                        <<"t", "h", "r", "e", "e", "-", "p", "o", "i", "n", "t">>>>,
       new_ok      |-> TRUE,
       existing_ok |-> TRUE],
      [key         |-> <<"s", "l", "o", "p", "e">>,
       aliases     |-> <<>>,
       new_ok      |-> TRUE,
       existing_ok |-> TRUE],
      [key         |-> <<"c", "l", "a", "m", "p", "-", "o", "n">>,
       aliases     |-> <<<<"c", "l", "a", "m", "p", " ", "o", "n">>,
                        <<"c", "l", "a", "m", "p">>>>,
       new_ok      |-> FALSE,
       existing_ok |-> TRUE],
      [key         |-> <<"a", "t", "t", "a", "c", "h", "e", "d", "-", "r", "o", "d">>,
       aliases     |-> <<<<"a", "t", "t", "a", "c", "h", "e", "d", " ", "r", "o", "d">>>>,
       new_ok      |-> TRUE,
       existing_ok |-> TRUE],
      [key         |-> <<"s", "t", "a", "r", "-", "d", "e", "l", "t", "a">>,
       aliases     |-> <<<<"s", "t", "a", "r", " ", "d", "e", "l", "t", "a">>>>,
       new_ok      |-> TRUE,
       existing_ok |-> TRUE]
    >>

\* _normalize_method: method.lower().strip().replace(" ", "-")
normalize_method(method) == Replace(Strip(Lower(method)), " ", "-")

\* a lookup among the primary keys alone, aliases left out
find_method_key_without_aliases(normalized_method) ==
    LET isKey == {k \in 1..Len(VALID_TEST_METHODS) :
                     VALID_TEST_METHODS[k].key = normalized_method}
    IN  IF isKey # {} THEN CHOOSE k \in isKey : \A j \in isKey : k <= j ELSE 0

\* _find_method_key: the index of the method in VALID_TEST_METHODS, 0 for None
find_method_key(normalized_method) ==
    LET n       == Len(VALID_TEST_METHODS)
        isKey   == {k \in 1..n : VALID_TEST_METHODS[k].key = normalized_method}
        isAlias == {k \in 1..n :
                       \E a \in 1..Len(VALID_TEST_METHODS[k].aliases) :
                           normalize_method(VALID_TEST_METHODS[k].aliases[a])
                               = normalized_method}
        first(S) == CHOOSE k \in S : \A j \in S : k <= j
    IN  IF isKey # {} THEN first(isKey)
        ELSE IF isAlias # {} THEN first(isAlias)
        ELSE 0

\* repr() of an Optional[str] without quotes or backslashes in it
Repr(x) == IF x = NoneStr THEN <<"N", "o", "n", "e">> ELSE <<"'">> \o x \o <<"'">>

validate_test_method(grounding, rule_id) ==
    LET method      == grounding.test_method
        raw_method  == method.value
        found       == find_method_key(normalize_method(raw_method))
        method_info == VALID_TEST_METHODS[found]
        method_key  == method_info.key
        context     == grounding.installation_type
        raw_context == context.value
        normalized_context == Strip(Lower(raw_context))
        expected_doc == <<"Documented test method (e.g., fall-of-potential, clamp-on)">>
        expected_ctx == <<"Installation type context (new or existing)">>
    IN  IF ~method.present
        THEN <<Finding(rule_id, "ERROR",
                       Msg("Test method not specified - must be documented for audit traceability",
                           <<>>),
                       "test_method", NoneStr, expected_doc, NoLocation)>>
        ELSE IF raw_method = NoneStr \/ Strip(raw_method) = <<>>
        THEN <<Finding(rule_id, "ERROR",
                       Msg("Test method value is empty - must be documented for audit traceability",
                           <<>>),
                       "test_method", Repr(raw_method), expected_doc, method.location)>>
        ELSE IF found = 0
        THEN <<Finding(rule_id, "WARNING",
                       Msg("Test method '{}' is unrecognized - manual review required to verify validity",
                           <<raw_method>>),
                       "test_method", raw_method,
                       <<"Recognized method: fall-of-potential, slope, clamp-on, attached-rod, star-delta">>,
                       method.location)>>
        ELSE IF ~context.present
        THEN <<Finding(rule_id, "WARNING",
                       Msg("Test method '{}' is valid but installation type context is missing - cannot verify method appropriateness",
                           <<method_key>>),
                       "test_method", method_key, expected_ctx, method.location)>>
        ELSE IF raw_context = NoneStr \/ Strip(raw_context) = <<>>
        THEN <<Finding(rule_id, "WARNING",
                       Msg("Test method '{}' is valid but installation type context is empty - cannot verify method appropriateness",
                           <<method_key>>),
                       "test_method", method_key, expected_ctx, method.location)>>
        ELSE IF normalized_context = <<"n", "e", "w">> /\ ~method_info.new_ok
        THEN <<Finding(rule_id, "WARNING",
                       Msg("Test method '{}' is not recommended for new installations - fall-of-potential method is standard",
                           <<method_key>>),
                       "test_method", method_key \o <<" (new installation)">>,
                       <<"fall-of-potential or equivalent for new installations">>,
                       method.location)>>
        ELSE IF normalized_context = <<"e", "x", "i", "s", "t", "i", "n", "g">>
                /\ ~method_info.existing_ok
        THEN <<Finding(rule_id, "WARNING",
                       Msg("Test method '{}' is not appropriate for existing installations",
                           <<method_key>>),
                       "test_method", method_key \o <<" (existing installation)">>,
                       <<"Appropriate method for existing installation testing">>,
                       method.location)>>
        ELSE IF normalized_context \notin {<<"n", "e", "w">>,
                                           <<"e", "x", "i", "s", "t", "i", "n", "g">>}
        THEN <<Finding(rule_id, "WARNING",
                       Msg("Test method '{}' is valid but installation type '{}' is unrecognized - cannot verify method appropriateness",
                           <<method_key, raw_context>>),
                       "test_method", method_key,
                       <<"Installation type: 'new' or 'existing'">>, method.location)>>
        ELSE <<Finding(rule_id, "INFO",
                       Msg("Test method '{}' is appropriate for {} installation testing",
                           <<method_key, normalized_context>>),
                       "test_method", method_key,
                       <<"Valid method for ">> \o normalized_context \o <<" installation">>,
                       method.location)>>

(***************************************************************************)
(* megger_voltage.py                                                       *)
(***************************************************************************)
Infinity == Float("inf", FALSE, 0)

\* float.__le__
FloatLessEq(x, y) == x.kind # "nan" /\ y.kind # "nan" /\ FloatKey(x) <= FloatKey(y)

\* the table's entries are Python ints: f"{500}" is "500"
IntStr(x) == Pad(x.mag \div Scale, 1)

VOLTAGE_CLASS_TEST_VOLTAGES ==
    << <<Const(250 * Scale), Const(500 * Scale), Const(500 * Scale)>>,
       <<Const(500 * Scale), Const(1000 * Scale), Const(1000 * Scale)>>,
       <<Const(1000 * Scale), Const(1000 * Scale), Const(2500 * Scale)>>,
       <<Infinity, Const(2500 * Scale), Const(5000 * Scale)>> >>

\* the index of the first row of the table with equipment_voltage <= max_equip,
\* 0 when the loop ends without one (the function returns None)
FirstRow(table, equipment_voltage) ==
    LET fit == {k \in 1..Len(table) : FloatLessEq(equipment_voltage, table[k][1])}
    IN  IF fit = {} THEN 0 ELSE CHOOSE k \in fit : \A j \in fit : k <= j

get_voltage_class(equipment_voltage) ==
    FirstRow(VOLTAGE_CLASS_TEST_VOLTAGES, equipment_voltage)

\* Cases 1 to 7 of both megger validators: the equipment rating and the
\* measured field (name, with the texts the findings carry); <<>> when all of
\* them pass
MeggerPreconditions(rule_id, table, rating, measured, name, t) ==
    IF ~rating.present
    THEN <<Finding(rule_id, "WARNING", Msg(t.rating_missing, <<>>),
                   "equipment_voltage_rating", NoneStr,
                   <<"equipment voltage rating in volts">>, NoLocation)>>
    ELSE IF rating.value = NoneStr
    THEN <<Finding(rule_id, "WARNING", Msg(t.rating_empty, <<>>),
                   "equipment_voltage_rating", NoneStr,
                   <<"equipment voltage rating in volts">>, rating.location)>>
    ELSE IF ~measured.present
    THEN <<Finding(rule_id, "WARNING", Msg(t.measured_missing, <<>>),
                   name, NoneStr, t.measured_expected, NoLocation)>>
    ELSE IF measured.value = NoneStr
    THEN <<Finding(rule_id, "WARNING", Msg(t.measured_empty, <<>>),
                   name, NoneStr, t.measured_expected, measured.location)>>
    ELSE IF FloatOf(rating.value) = NotAFloat
    THEN <<Finding(rule_id, "WARNING",
                   Msg("Could not parse equipment voltage rating '{}' - manual review required",
                       <<rating.value>>),
                   "equipment_voltage_rating", rating.value, <<"numeric voltage value">>,
                   rating.location)>>
    ELSE IF FloatOf(measured.value) = NotAFloat
    THEN <<Finding(rule_id, "WARNING", Msg(t.measured_unparseable, <<measured.value>>),
                   name, measured.value, t.measured_numeric, measured.location)>>
    ELSE IF FirstRow(table, FloatOf(rating.value)) = 0
    THEN <<Finding(rule_id, "WARNING",
                   Msg("Unknown voltage class for equipment rated {}V - manual review required",
                       <<FloatStr(FloatOf(rating.value))>>),
                   "equipment_voltage_rating",
                   FloatStr(FloatOf(rating.value)) \o <<"V">>,
                   <<"standard voltage class">>, rating.location)>>
    ELSE <<>>

validate_test_voltage(megger, rule_id) ==
    LET rating   == megger.equipment_voltage_rating
        field    == megger.test_voltage
        failed   == MeggerPreconditions(rule_id, VOLTAGE_CLASS_TEST_VOLTAGES, rating, field,
                        "test_voltage",
                        [rating_missing   |-> "Equipment voltage rating missing - cannot validate test voltage appropriateness",
                         rating_empty     |-> "Equipment voltage rating value is empty - cannot validate test voltage",
                         measured_missing |-> "Test voltage missing - cannot validate voltage appropriateness",
                         measured_empty   |-> "Test voltage value is empty - cannot validate voltage appropriateness",
                         measured_expected |-> <<"test voltage in volts">>,
                         measured_unparseable |-> "Could not parse test voltage '{}' - manual review required",
                         measured_numeric |-> <<"numeric voltage value">>])
        equipment_voltage == FloatOf(rating.value)
        test_voltage      == FloatOf(field.value)
        voltage_class     == VOLTAGE_CLASS_TEST_VOLTAGES[get_voltage_class(equipment_voltage)]
        recommended_test  == voltage_class[2]
        max_safe_test     == voltage_class[3]
        found             == FloatStr(test_voltage) \o <<"V">>
    IN  IF failed # <<>> THEN failed
        ELSE IF FloatGreater(test_voltage, max_safe_test)
        THEN <<Finding(rule_id, "ERROR",
                       Msg("Test voltage {}V too high for equipment rated {}V (max safe: {}V) - potential equipment damage",
                           <<FloatStr(test_voltage), FloatStr(equipment_voltage),
                             IntStr(max_safe_test)>>),
                       "test_voltage", found,
                       <<"<", "=", " ">> \o IntStr(max_safe_test) \o <<"V">>,
                       field.location)>>
        ELSE IF FloatLess(test_voltage, recommended_test)
        THEN <<Finding(rule_id, "WARNING",
                       Msg("Test voltage {}V below recommended {}V for equipment rated {}V - may not reveal insulation defects",
                           <<FloatStr(test_voltage), IntStr(recommended_test),
                             FloatStr(equipment_voltage)>>),
                       "test_voltage", found,
                       <<">", "=", " ">> \o IntStr(recommended_test) \o <<"V">>,
                       field.location)>>
        ELSE <<Finding(rule_id, "INFO",
                       Msg("Test voltage {}V appropriate for equipment rated {}V",
                           <<FloatStr(test_voltage), FloatStr(equipment_voltage)>>),
                       "test_voltage", found,
                       IntStr(recommended_test) \o <<"V", " ", "-", " ">>
                           \o IntStr(max_safe_test) \o <<"V">>,
                       field.location)>>

(***************************************************************************)
(* megger_insulation.py                                                    *)
(***************************************************************************)
VOLTAGE_CLASS_MIN_RESISTANCE ==
    << <<Const(250 * Scale), Const(25)>>,
       <<Const(500 * Scale), Const(50)>>,
       <<Const(1000 * Scale), Const(Scale)>>,
       <<Infinity, Const(Scale)>> >>

get_min_resistance(equipment_voltage) ==
    FirstRow(VOLTAGE_CLASS_MIN_RESISTANCE, equipment_voltage)

validate_insulation_resistance(megger, rule_id) ==
    LET rating   == megger.equipment_voltage_rating
        field    == megger.insulation_resistance
        failed   == MeggerPreconditions(rule_id, VOLTAGE_CLASS_MIN_RESISTANCE, rating, field,
                        "insulation_resistance",
                        [rating_missing   |-> "Equipment voltage rating missing - cannot determine minimum insulation resistance requirement",
                         rating_empty     |-> "Equipment voltage rating value is empty - cannot determine minimum resistance",
                         measured_missing |-> "Insulation resistance value missing - cannot validate minimum requirement",
                         measured_empty   |-> "Insulation resistance value is empty - cannot validate minimum requirement",
                         measured_expected |-> <<"insulation resistance in megohms">>,
                         measured_unparseable |-> "Could not parse insulation resistance '{}' - manual review required",
                         measured_numeric |-> <<"numeric resistance value in megohms">>])
        equipment_voltage == FloatOf(rating.value)
        resistance        == FloatOf(field.value)
        min_resistance    ==
            VOLTAGE_CLASS_MIN_RESISTANCE[get_min_resistance(equipment_voltage)][2]
        found             == FloatStr(resistance) \o <<" Mohm">>
        expected          == <<">", "=", " ">> \o FloatStr(min_resistance) \o <<" Mohm">>
    IN  IF failed # <<>> THEN failed
        ELSE IF FloatLess(resistance, min_resistance)
        THEN <<Finding(rule_id, "WARNING",
                       Msg("Insulation resistance {} Mohm below minimum {} Mohm for equipment rated {}V - review required",
                           <<FloatStr(resistance), FloatStr(min_resistance),
                             FloatStr(equipment_voltage)>>),
                       "insulation_resistance", found, expected, field.location)>>
        ELSE <<Finding(rule_id, "INFO",
                       Msg("Insulation resistance {} Mohm meets minimum requirement ({} Mohm) for equipment rated {}V",
                           <<FloatStr(resistance), FloatStr(min_resistance),
                             FloatStr(equipment_voltage)>>),
                       "insulation_resistance", found, expected, field.location)>>

(***************************************************************************)
(* validate.py: the findings of one extraction                             *)
(***************************************************************************)
\* sub in s, for two str
Contains(s, sub) ==
    \E i \in 0..(Len(s) - Len(sub)) : SubSeq(s, i + 1, i + Len(sub)) = sub

\* the fields of ExtractionResult the validation reads; thermography,
\* grounding and megger are <<>> for None and <<data>> otherwise
ExtractionResult(status, calibrations, thermography, grounding, megger) ==
    [status       |-> status,
     calibrations |-> calibrations,
     thermography |-> thermography,
     grounding    |-> grounding,
     megger       |-> megger]

\* serial.py, collect_serial_numbers: the serial_number of every calibration
\* that has one, in input order
RECURSIVE collect_serial_numbers(_)
collect_serial_numbers(calibrations) ==
    IF calibrations = <<>> THEN <<>>
    ELSE (IF Head(calibrations).serial_number.present
          THEN <<Head(calibrations).serial_number>>
          ELSE <<>>) \o collect_serial_numbers(Tail(calibrations))

\* 5a: validate_calibration of every calibration, under the default rule_id
RECURSIVE CalibrationFindings(_, _)
CalibrationFindings(calibrations, test_date) ==
    IF calibrations = <<>> THEN <<>>
    ELSE validate_calibration(Head(calibrations), test_date, "VAL-01")
             \o CalibrationFindings(Tail(calibrations), test_date)

\* calibration.instrument_type and "thermo" in calibration.instrument_type.lower()
IsThermoCalibration(calibration) ==
    /\ calibration.instrument_type # NoneStr
    /\ calibration.instrument_type # <<>>
    /\ Contains(Lower(calibration.instrument_type), <<"t", "h", "e", "r", "m", "o">>)

\* THERMO-03: validate_calibration of the thermography calibrations
RECURSIVE ThermoCalibrationFindings(_, _)
ThermoCalibrationFindings(calibrations, test_date) ==
    IF calibrations = <<>> THEN <<>>
    ELSE (IF IsThermoCalibration(Head(calibrations))
          THEN validate_calibration(Head(calibrations), test_date, "THERMO-03")
          ELSE <<>>) \o ThermoCalibrationFindings(Tail(calibrations), test_date)

\* 5c: THERMO-01, and THERMO-02 when there are phase readings
ThermographyFindings(thermography) ==
    IF thermography = <<>> THEN <<>>
    ELSE validate_camera_config(thermography, "THERMO-01")
             \o (IF thermography[1].phase_readings # <<>>
                 THEN validate_phase_delta(thermography[1].phase_readings, "THERMO-02")
                 ELSE <<>>)

\* GROUND-01 left out when the grounding has no calibration
GroundingFindingsOfCalibrated(grounding, test_date) ==
    IF grounding = <<>> THEN <<>>
    ELSE (IF grounding[1].calibration = <<>> THEN <<>>
          ELSE validate_grounding_calibration(grounding[1], test_date, "GROUND-01"))
             \o validate_grounding_resistance(grounding[1], "GROUND-02")
             \o validate_test_method(grounding[1], "GROUND-03")

\* 5d: GROUND-01, GROUND-02, GROUND-03
GroundingFindings(grounding, test_date) ==
    IF grounding = <<>> THEN <<>>
    ELSE validate_grounding_calibration(grounding[1], test_date, "GROUND-01")
             \o validate_grounding_resistance(grounding[1], "GROUND-02")
             \o validate_test_method(grounding[1], "GROUND-03")

\* 5e: MEGGER-01, MEGGER-02, MEGGER-03
MeggerFindings(megger, test_date) ==
    IF megger = <<>> THEN <<>>
    ELSE validate_megger_calibration(megger[1], test_date, "MEGGER-01")
             \o validate_test_voltage(megger[1], "MEGGER-02")
             \o validate_insulation_resistance(megger[1], "MEGGER-03")

\* the calibrations of the thermography camera checked with the thermography
all_findings_thermo_first(extraction, test_date) ==
    CalibrationFindings(extraction.calibrations, test_date)
        \o validate_serial_consistency(collect_serial_numbers(extraction.calibrations),
                                       "VAL-02")
        \o ThermoCalibrationFindings(extraction.calibrations, test_date)
        \o ThermographyFindings(extraction.thermography)
        \o GroundingFindings(extraction.grounding, test_date)
        \o MeggerFindings(extraction.megger, test_date)

\* step 5 of validate_document: all_findings
all_findings(extraction, test_date) ==
    CalibrationFindings(extraction.calibrations, test_date)
        \o validate_serial_consistency(collect_serial_numbers(extraction.calibrations),
                                       "VAL-02")
        \o ThermographyFindings(extraction.thermography)
        \o ThermoCalibrationFindings(extraction.calibrations, test_date)
        \o GroundingFindings(extraction.grounding, test_date)
        \o MeggerFindings(extraction.megger, test_date)

\* validation.py, finding_to_response: the location flattened to its page
finding_to_response(finding) ==
    [rule_id        |-> finding.rule_id,
     severity       |-> finding.severity,
     message        |-> finding.message,
     field_name     |-> finding.field_name,
     found_value    |-> finding.found_value,
     expected_value |-> finding.expected_value,
     page           |-> finding.location.page]

\* step 8: the evidence summary stored with the findings
evidence_summary(document_id, test_date, extraction, findings) ==
    [document_id            |-> document_id,
     test_date              |-> test_date,
     calibrations_checked   |-> Len(extraction.calibrations),
     serial_numbers_checked |-> Len(collect_serial_numbers(extraction.calibrations)),
     thermography_validated |-> extraction.thermography # <<>>,
     phase_readings_checked |->
         IF extraction.thermography # <<>>
         THEN Len(extraction.thermography[1].phase_readings) ELSE 0,
     grounding_validated    |-> extraction.grounding # <<>>,
     megger_validated       |-> extraction.megger # <<>>,
     findings_count         |-> Len(findings)]

(***************************************************************************)
(* Inputs of the calls                                                     *)
(***************************************************************************)
Formats == {"ISO", "DD_MM_YYYY", "MM_DD_YY"}

Hints == Formats \cup {"None"}

\* a date written in one of the three formats; short = day and month of a
\* slash format without the leading zero
FormatAs(d, fmt, short) ==
    LET w == IF short THEN 1 ELSE 2
    IN  IF fmt = "ISO"
        THEN DateStr(d)
        ELSE IF fmt = "DD_MM_YYYY"
        THEN Pad(d.d, w) \o <<"/">> \o Pad(d.m, w) \o <<"/">> \o Pad(d.y, 4)
        ELSE Pad(d.m, w) \o <<"/">> \o Pad(d.d, w) \o <<"/">> \o Pad(d.y - 2000, 2)

SampleYears == {1, 999, 2000, 2023, 2024, 2099, 9999}

SampleMonths == {1, 2, 4, 12}

SampleDates ==
    {Date(y, m, d) : y \in SampleYears, m \in SampleMonths, d \in {1, 2, 12, 13, 28, 29, 30, 31}}
        \ {dt \in [kind : {"date"}, y : SampleYears, m : SampleMonths, d : 1..31] :
               dt.d > DaysInMonth(dt.y, dt.m)}

\* the dates a format can express
Expressible(d, fmt) == fmt = "MM_DD_YY" => d.y \in 2000..2099

\* parse_date calls on a date written in a format
WrittenCalls ==
    {[raw     |-> FormatAs(w.d, w.fmt, w.short),
      hint    |-> h,
      written |-> <<w>>] :
        w \in {x \in [d : SampleDates, fmt : Formats, short : BOOLEAN] :
                   Expressible(x.d, x.fmt) /\ (x.fmt = "ISO" => ~x.short)},
        h \in Hints}

\* the digit groups the free-form strings are assembled from
Groups ==
    { <<"1">>, <<"0", "2">>, <<"1", "2">>, <<"1", "3">>, <<"2", "9">>, <<"3", "1">>,
      <<"2", "4">>, <<"2", "0", "2", "3">>, <<"2", "0", "2", "4">>,
      <<"0", "0", "0", "0">>,
      <<"9", "9", "9", "9", "9", "9", "9", "9", "9", "9", "9">>,
      <<"x">>, <<>> }

GroupStrings ==
    {a \o <<s>> \o b \o <<s>> \o c : a \in Groups, b \in Groups, c \in Groups,
                                     s \in {"/", "-"}}

SpecialStrings ==
    { NoneStr, <<>>, <<" ", " ">>,
      <<" ", "0", "1", "/", "0", "2", "/", "2", "0", "2", "4", " ">>,
      <<"1", " ", "/", " ", "2", "/", "2", "0", "2", "4">>,
      <<"2", "0", "2", "4", "-", "0", "1", "-", "0", "2", "-", "0", "3">>,
      <<"2", "0", "2", "4", "-", "1", "-", "2">>,
      <<"1", "/", "2", "/", "-", "1", "9", "9", "0">>,
      <<"1", "/", "2", "/", "7", "9", "9", "9">>,
      <<"1", "/", "2">>, <<"2", "0", "2", "4">>,
      <<"i", "n", "v", "a", "l", "i", "d">> }

FreeCalls ==
    {[raw |-> r, hint |-> h, written |-> <<>>] :
        r \in GroupStrings \cup SpecialStrings, h \in Hints}

ParseDateCalls == WrittenCalls \cup FreeCalls

Severities == {"ERROR", "WARNING", "INFO"}

MaxFindings == 3

\* findings as the validators build them: the severity decides, the rest rides along
SampleFindings ==
    {Finding("VAL-01", s, Msg("sample", <<>>), "expiration_date", NoneStr, NoneStr,
             NoLocation) : s \in Severities}
        \cup {Finding("VAL-02", "ERROR", Msg("sample", <<>>), "serial_number", NoneStr,
                      NoneStr, NoLocation)}

FindingLists == UNION {[1..n -> SampleFindings] : n \in 0..MaxFindings}

ComputeStatusCalls == {[findings |-> l] : l \in FindingLists}

\* calibration expiry: dates on both sides of every test date, a day apart
TestDates == {Date(2024, 1, 1), Date(2024, 3, 1), Date(2024, 3, 15)}

ExpirationDates ==
    {Date(2023, 6, 20), Date(2023, 12, 31), Date(2024, 1, 1), Date(2024, 1, 2),
     Date(2024, 2, 29), Date(2024, 3, 1), Date(2024, 3, 2), Date(2024, 3, 14),
     Date(2024, 3, 15), Date(2024, 3, 16), Date(2025, 1, 1)}

ExpirationValues ==
    {FormatAs(d, f, sh) : d \in ExpirationDates, f \in Formats, sh \in BOOLEAN}
        \cup { NoneStr, <<>>, <<" ", " ">>,
               <<"i", "n", "v", "a", "l", "i", "d">>,
               <<"3", "1", "/", "0", "2", "/", "2", "0", "2", "4">>,
               <<"1", "2", "/", "3", "1", "/", "2", "0", "2", "4">>,
               <<"1", "5", "-", "0", "3", "-", "2", "0", "2", "4">>,
               <<" ", "1", "4", "/", "0", "3", "/", "2", "0", "2", "4", " ">> }

ExpirationFields ==
    {AbsentField} \cup {Field(v, l) : v \in ExpirationValues, l \in {NoLocation, Location(1)}}

CalibrationInfos == {[expiration_date |-> e] : e \in ExpirationFields}

CalibrationRuleIds == {"VAL-01", "THERMO-03", "GROUND-01", "MEGGER-01"}

CalibrationCalls ==
    {[calibration |-> c, test_date |-> t, rule_id |-> r] :
        c \in CalibrationInfos, t \in TestDates, r \in CalibrationRuleIds}

MaxSerials == 3

SerialValues ==
    { NoneStr, <<>>, <<" ">>, <<"A", "1">>, <<"a", "1">>, <<" ", "A", "1", " ">>,
      <<"B", "2">> }

\* the field at position i of the list was found on page i
SerialLists ==
    UNION {{[i \in 1..n |-> Field(v[i], Location(i))] : v \in [1..n -> SerialValues]} :
              n \in 0..MaxSerials}

SerialCalls == {[serial_numbers |-> l, rule_id |-> "VAL-02"] : l \in SerialLists}

\* camera and datalogger temperatures: missing, blank, not numeric, equal and unequal
TemperatureValues ==
    { NoneStr, <<>>, <<" ">>, <<"x">>, <<"n", "a", "n">>, <<"2", "5">>,
      <<"2", "5", ".", "0">>, <<"2", "5", ".", "5">>, <<" ", "2", "5", " ">>,
      <<"-", "3">> }

OptionalFields(values) == {AbsentField} \cup {Field(v, Location(1)) : v \in values}

ThermographyDatas ==
    {[camera_ambient_temp |-> c, datalogger_temp |-> d, phase_readings |-> <<>>] :
        c \in OptionalFields(TemperatureValues), d \in OptionalFields(TemperatureValues)}

CameraConfigCalls ==
    {[thermography |-> t, rule_id |-> "THERMO-01"] :
        t \in {<<>>} \cup {<<d>> : d \in ThermographyDatas}}

MaxReadings == 3

\* phase temperatures, multiples of 0.25: deltas of 3.0, 3.25, 15.0 and 15.25
PhaseValues ==
    { NoneStr, <<>>, <<"x">>, <<"1", "0">>, <<"1", "3">>, <<"1", "3", ".", "2", "5">>,
      <<"2", "5">>, <<"2", "5", ".", "2", "5">>,
      <<"n", "a", "n">> }

\* the reading at position i is labelled L<i>
PhaseReadingLists ==
    UNION {{[i \in 1..n |->
                [location_label |-> <<"L">> \o Pad(i, 1),
                 value          |-> Field(v[i], Location(i))]] :
               v \in [1..n -> PhaseValues]} : n \in 0..MaxReadings}

PhaseDeltaCalls == {[phase_readings |-> l, rule_id |-> "THERMO-02"] : l \in PhaseReadingLists}

\* longer lists of readings, over fewer values: several readings that do not
\* parse beside several that do
MaxManyReadings == 4

FewPhaseValues == { NoneStr, <<"x">>, <<"1", "0">>, <<"2", "5", ".", "2", "5">>, <<"n", "a", "n">> }

ManyPhaseReadingLists ==
    UNION {{[i \in 1..n |->
                [location_label |-> <<"L">> \o Pad(i, 1),
                 value          |-> Field(v[i], Location(i))]] :
               v \in [1..n -> FewPhaseValues]} : n \in 0..MaxManyReadings}

ManyPhaseDeltaCalls ==
    {[phase_readings |-> l, rule_id |-> "THERMO-02"] : l \in ManyPhaseReadingLists}

\* grounding resistance in ohms, on both sides of 0, 5.0 and 10.0
ResistanceValues ==
    { NoneStr, <<>>, <<" ">>, <<"x">>, <<"n", "a", "n">>, <<"i", "n", "f">>,
      <<"-", "1">>, <<"-", "0">>, <<"0">>, <<"5">>, <<"5", ".", "0">>,
      <<"5", ".", "0", "1">>, <<"7", ".", "2", "5">>, <<"1", "0">>,
      <<"1", "0", ".", "0">>, <<"1", "0", ".", "0", "1">>, <<" ", "5", " ">> }

GroundingData(calibration, resistance_value, test_method, installation_type) ==
    [calibration       |-> calibration,
     resistance_value  |-> resistance_value,
     test_method       |-> test_method,
     installation_type |-> installation_type]

GroundingResistanceCalls ==
    {[grounding |-> GroundingData(<<>>, r, AbsentField, AbsentField),
      rule_id   |-> "GROUND-02"] : r \in OptionalFields(ResistanceValues)}

\* test methods: every key and alias, unrecognized ones, missing ones
MethodValues ==
    { NoneStr, <<>>, <<" ">>,
      <<"f", "a", "l", "l", "-", "o", "f", "-", "p", "o", "t", "e", "n", "t", "i", "a", "l">>,
      <<"F", "a", "l", "l", " ", "O", "f", " ", "P", "o", "t", "e", "n", "t", "i", "a", "l">>,
      <<"3", "-", "p", "o", "i", "n", "t">>,
      <<"t", "h", "r", "e", "e", "-", "p", "o", "i", "n", "t">>,
      <<"s", "l", "o", "p", "e">>, <<" ", "S", "l", "o", "p", "e", " ">>,
      <<"c", "l", "a", "m", "p", "-", "o", "n">>,
      <<"C", "L", "A", "M", "P", " ", "O", "N">>, <<"c", "l", "a", "m", "p">>,
      <<"a", "t", "t", "a", "c", "h", "e", "d", " ", "r", "o", "d">>,
      <<"a", "t", "t", "a", "c", "h", "e", "d", "-", "r", "o", "d">>,
      <<"s", "t", "a", "r", "-", "d", "e", "l", "t", "a">>,
      <<"s", "t", "a", "r", " ", "d", "e", "l", "t", "a">>,
      <<"w", "e", "n", "n", "e", "r">>,
      <<"f", "a", "l", "l", " ", " ", "o", "f", " ", "p", "o", "t", "e", "n", "t", "i", "a", "l">> }

ContextValues ==
    { NoneStr, <<>>, <<" ">>, <<"n", "e", "w">>, <<" ", "N", "e", "w", " ">>,
      <<"e", "x", "i", "s", "t", "i", "n", "g">>,
      <<"E", "X", "I", "S", "T", "I", "N", "G">>,
      <<"r", "e", "t", "r", "o", "f", "i", "t">> }

TestMethodCalls ==
    {[grounding |-> GroundingData(<<>>, AbsentField, m, c), rule_id |-> "GROUND-03"] :
        m \in OptionalFields(MethodValues), c \in OptionalFields(ContextValues)}

\* the calibration sub-object of a grounding or megger record: None or present
OptionalCalibrations == {<<>>} \cup {<<c>> : c \in CalibrationInfos}

GroundingCalibrationCalls ==
    {[grounding |-> GroundingData(c, AbsentField, AbsentField, AbsentField),
      test_date |-> t,
      rule_id   |-> r] :
        c \in OptionalCalibrations, t \in TestDates, r \in {"GROUND-01", "AUDIT-07"}}

MeggerData(calibration, test_voltage, equipment_voltage_rating, insulation_resistance) ==
    [calibration              |-> calibration,
     test_voltage             |-> test_voltage,
     equipment_voltage_rating |-> equipment_voltage_rating,
     insulation_resistance    |-> insulation_resistance]

MeggerCalibrationCalls ==
    {[megger    |-> MeggerData(c, AbsentField, AbsentField, AbsentField),
      test_date |-> t,
      rule_id   |-> r] :
        c \in OptionalCalibrations, t \in TestDates, r \in {"MEGGER-01", "AUDIT-07"}}

\* equipment ratings in volts, on both sides of 250, 500 and 1000
RatingValues ==
    { NoneStr, <<>>, <<"x">>, <<"n", "a", "n">>, <<"i", "n", "f">>, <<"-", "5">>,
      <<"0">>, <<"2", "5", "0">>, <<"2", "5", "0", ".", "0", "1">>, <<"5", "0", "0">>,
      <<"5", "0", "0", ".", "5">>, <<"1", "0", "0", "0">>,
      <<"1", "0", "0", "0", ".", "2", "5">>, <<"4", "1", "6", "0">> }

\* test voltages in volts, on both sides of every recommended and maximum voltage
TestVoltageValues ==
    { NoneStr, <<>>, <<"x">>, <<"n", "a", "n">>, <<"2", "5", "0">>,
      <<"4", "9", "9", ".", "9", "9">>, <<"5", "0", "0">>,
      <<"5", "0", "0", ".", "2", "5">>, <<"1", "0", "0", "0">>,
      <<"1", "0", "0", "0", ".", "0", "1">>, <<"2", "5", "0", "0">>,
      <<"2", "5", "0", "0", ".", "5">>, <<"5", "0", "0", "0">>,
      <<"5", "0", "0", "0", ".", "0", "1">> }

\* insulation resistances in megohms, on both sides of 0.25, 0.5 and 1.0
InsulationValues ==
    { NoneStr, <<>>, <<"x">>, <<"n", "a", "n">>, <<"-", "1">>, <<"0">>,
      <<"0", ".", "2", "4">>, <<"0", ".", "2", "5">>, <<"0", ".", "4", "9">>,
      <<"0", ".", "5">>, <<"0", ".", "9", "9">>, <<"1">>, <<"1", ".", "0">>,
      <<"1", "0", "0">> }

TestVoltageCalls ==
    {[megger  |-> MeggerData(<<>>, v, r, AbsentField), rule_id |-> "MEGGER-02"] :
        v \in OptionalFields(TestVoltageValues), r \in OptionalFields(RatingValues)}

InsulationResistanceCalls ==
    {[megger  |-> MeggerData(<<>>, AbsentField, r, i), rule_id |-> "MEGGER-03"] :
        r \in OptionalFields(RatingValues), i \in OptionalFields(InsulationValues)}

\* calibration entries of an extraction: two thermography cameras with the
\* same serial number, one valid and one expired; an entry with nothing in
\* it; a grounding meter with another serial number and an unreadable date
CalibrationInfo(instrument_type, serial_number, expiration_date) ==
    [instrument_type |-> instrument_type,
     serial_number   |-> serial_number,
     expiration_date |-> expiration_date]

CalibrationSamples ==
    { CalibrationInfo(<<"T", "h", "e", "r", "m", "o", "g", "r", "a", "p", "h", "y">>,
                      Field(<<"S", "N", "1">>, Location(1)),
                      Field(<<"2", "0", "2", "4", "-", "1", "2", "-", "3", "1">>, Location(1))),
      CalibrationInfo(<<"I", "R", " ", "T", "H", "E", "R", "M", "O">>,
                      Field(<<" ", "s", "n", "1">>, Location(2)),
                      Field(<<"3", "1", "/", "1", "2", "/", "2", "0", "2", "3">>, Location(2))),
      CalibrationInfo(NoneStr, AbsentField, AbsentField),
      CalibrationInfo(<<"g", "r", "o", "u", "n", "d", "i", "n", "g">>,
                      Field(<<"S", "N", "2">>, Location(3)),
                      Field(<<"i", "n", "v", "a", "l", "i", "d">>, Location(3))) }

MaxCalibrations == 2

CalibrationLists == UNION {[1..n -> CalibrationSamples] : n \in 0..MaxCalibrations}

PhaseReading(i, value) ==
    [location_label |-> <<"L">> \o Pad(i, 1), value |-> Field(value, Location(i))]

\* thermography: none; equal temperatures and no phase readings; unequal
\* temperatures with three readings, one of them unreadable
ThermographySamples ==
    { <<>>,
      <<[camera_ambient_temp |-> Field(<<"2", "5">>, Location(1)),
         datalogger_temp     |-> Field(<<"2", "5", ".", "0">>, Location(1)),
         phase_readings      |-> <<>>]>>,
      <<[camera_ambient_temp |-> Field(<<"2", "5">>, Location(1)),
         datalogger_temp     |-> Field(<<"2", "5", ".", "5">>, Location(1)),
         phase_readings      |-> <<PhaseReading(1, <<"1", "0">>), PhaseReading(2, <<"x">>),
                                   PhaseReading(3, <<"1", "3", ".", "2", "5">>)>>]>> }

\* grounding: none; a borderline resistance measured with clamp-on on a new
\* installation and no calibration; a high resistance, no method, and a
\* calibration that expired
GroundingSamples ==
    { <<>>,
      <<GroundingData(<<>>, Field(<<"7", ".", "2", "5">>, Location(4)),
                      Field(<<"c", "l", "a", "m", "p", "-", "o", "n">>, Location(4)),
                      Field(<<"n", "e", "w">>, Location(4)))>>,
      <<GroundingData(<<[expiration_date |->
                             Field(<<"2", "0", "2", "3", "-", "1", "2", "-", "3", "1">>,
                                   Location(4))]>>,
                      Field(<<"1", "0", ".", "0", "1">>, Location(4)),
                      AbsentField, AbsentField)>> }

\* megger: none; a test voltage too high for the rating; all in order
MeggerSamples ==
    { <<>>,
      <<MeggerData(<<>>, Field(<<"5", "0", "0", "0", ".", "0", "1">>, Location(5)),
                   Field(<<"1", "0", "0", "0">>, Location(5)),
                   Field(<<"0", ".", "9", "9">>, Location(5)))>>,
      <<MeggerData(<<[expiration_date |->
                          Field(<<"2", "0", "2", "4", "-", "1", "2", "-", "3", "1">>,
                                Location(5))]>>,
                   Field(<<"1", "0", "0", "0">>, Location(5)),
                   Field(<<"5", "0", "0">>, Location(5)),
                   Field(<<"1", "0", "0">>, Location(5)))>> }

ExtractionSamples ==
    {ExtractionResult(s, c, t, g, m) :
        s \in {"completed", "partial"}, c \in CalibrationLists, t \in ThermographySamples,
        g \in GroundingSamples, m \in MeggerSamples}

\* what extract_document returns in the runs of the service: nothing found,
\* everything found, and an extraction that failed
DocumentExtractions ==
    { ExtractionResult("completed", <<>>, <<>>, <<>>, <<>>),
      CHOOSE e \in ExtractionSamples :
          /\ e.status = "completed" /\ Len(e.calibrations) = 1
          /\ IsThermoCalibration(e.calibrations[1])
          /\ e.calibrations[1].expiration_date.location = Location(1)
          /\ e.thermography # <<>> /\ e.thermography[1].phase_readings # <<>>
          /\ e.grounding # <<>> /\ e.grounding[1].calibration = <<>>
          /\ e.megger # <<>> /\ e.megger[1].calibration # <<>>,
      ExtractionResult("failed", <<>>, <<>>, <<>>, <<>>) }

\* the test_date of a validation request
ValidateDates == {Date(2024, 3, 1), Date(2025, 1, 1)}

\* who asks for what: the owner for her document, another user for it, the
\* owner for a document that does not exist
Callers ==
    { [user |-> "alice", document_id |-> "d1"],
      [user |-> "bob", document_id |-> "d1"],
      [user |-> "alice", document_id |-> "d0"] }

MaxRequests == 3

MaxLoginRequests == 4

MaxLockoutNow == 30

MaxSessionRequests == 3

MaxSessionsNow == 3

MaxTokenRequests == 4

\* the emails and the passwords the clients send
Emails == {"alice", "nobody"}

Passwords == {"pw", "guess"}

(***************************************************************************)
(* The calls                                                               *)
(***************************************************************************)
Pending == <<>>

\* no service: a call of the library touches no table
NoService ==
    /\ documents = <<>>
    /\ validation_results = <<>>
    /\ users = <<>>
    /\ sessions = <<>>
    /\ requests = <<>>
    /\ now = 0

InitCall(name, calls) ==
    /\ op = name
    /\ arg \in calls
    /\ ret = Pending
    /\ pc = "call"
    /\ NoService

Return(name, value) ==
    /\ pc = "call"
    /\ op = name
    /\ ret' = value
    /\ pc' = "done"
    /\ UNCHANGED <<op, arg>>
    /\ UNCHANGED serviceVars

ParseDate == Return("parse_date", parse_date(arg.raw, arg.hint))

ComputeStatus == Return("compute_status", compute_status(arg.findings))

ValidateCalibration ==
    Return("validate_calibration",
           validate_calibration(arg.calibration, arg.test_date, arg.rule_id))

ValidateSerialConsistency ==
    Return("validate_serial_consistency",
           validate_serial_consistency(arg.serial_numbers, arg.rule_id))

ValidateCameraConfig ==
    Return("validate_camera_config", validate_camera_config(arg.thermography, arg.rule_id))

ValidatePhaseDelta ==
    Return("validate_phase_delta", validate_phase_delta(arg.phase_readings, arg.rule_id))

ValidateGroundingCalibration ==
    Return("validate_grounding_calibration",
           validate_grounding_calibration(arg.grounding, arg.test_date, arg.rule_id))

ValidateGroundingResistance ==
    Return("validate_grounding_resistance",
           validate_grounding_resistance(arg.grounding, arg.rule_id))

ValidateTestMethod ==
    Return("validate_test_method", validate_test_method(arg.grounding, arg.rule_id))

ValidateMeggerCalibration ==
    Return("validate_megger_calibration",
           validate_megger_calibration(arg.megger, arg.test_date, arg.rule_id))

ValidateTestVoltage ==
    Return("validate_test_voltage", validate_test_voltage(arg.megger, arg.rule_id))

ValidateInsulationResistance ==
    Return("validate_insulation_resistance",
           validate_insulation_resistance(arg.megger, arg.rule_id))

(***************************************************************************)
(* The document service: documents.py and validate.py                      *)
(*                                                                         *)
(* A request is served by a coroutine that gives way at every await; the   *)
(* steps below are the stretches between the awaits that read or write the *)
(* database.  Every request has a database session of its own, and what it *)
(* adds is written when it commits.  Requests start in the order of their  *)
(* numbers and run interleaved.  The caller is the authenticated user      *)
(* require_auth returned.                                                  *)
(***************************************************************************)
\* no call of the library is under way
NoCall ==
    /\ op = "none"
    /\ arg = <<>>
    /\ ret = Pending
    /\ pc = "idle"

IdleRequest ==
    [kind |-> "none", pc |-> "idle", user |-> "", document_id |-> "",
     test_date |-> NoDate, read |-> <<>>, response |-> <<>>]

\* the request has been answered, with an HTTP status and a body
Responded(kind, caller, status_code, body) ==
    [IdleRequest EXCEPT !.kind = kind, !.pc = "done", !.user = caller.user,
                        !.document_id = caller.document_id,
                        !.response = <<[status_code |-> status_code, body |-> body]>>]

\* request r is the next to start
Starts(r) ==
    /\ r \in DOMAIN requests
    /\ requests[r].pc = "idle"
    /\ \A q \in 1..(r - 1) : requests[q].pc # "idle"

\* models.py, ValidationResult
ValidationResult(document_id, status, findings, evidence, extraction, created_at) ==
    [document_id |-> document_id,
     status      |-> status,
     findings    |-> findings,
     evidence    |-> evidence,
     extraction  |-> extraction,
     created_at  |-> created_at]

\* created_at of a record added now: later than every record there is
NextCreatedAt == Len(validation_results) + 1

\* select(ValidationResult).where(document_id == ...): the rows of the document
ResultsOf(document_id) ==
    {i \in 1..Len(validation_results) : validation_results[i].document_id = document_id}

\* .order_by(created_at.desc()).limit(1): the row created last
LatestResult(document_id) ==
    validation_results[CHOOSE i \in ResultsOf(document_id) :
                           \A j \in ResultsOf(document_id) :
                               validation_results[j].created_at
                                   <= validation_results[i].created_at]

\* the checks every document endpoint starts with: 0 when they pass
DocumentAccess(caller) ==
    IF caller.document_id \notin DOMAIN documents THEN 404
    ELSE IF documents[caller.document_id].user_id # caller.user THEN 403
    ELSE 0

\* POST /documents/{id}/extract up to the commit of status "processing"
ExtractStartOf(r, caller) ==
    IF DocumentAccess(caller) # 0
    THEN /\ requests' = [requests EXCEPT
                             ![r] = Responded("extract", caller, DocumentAccess(caller), <<>>)]
         /\ UNCHANGED documents
    ELSE IF documents[caller.document_id].status \notin {"uploaded", "completed"}
    THEN /\ requests' = [requests EXCEPT ![r] = Responded("extract", caller, 400, <<>>)]
         /\ UNCHANGED documents
    ELSE /\ documents' = [documents EXCEPT ![caller.document_id].status = "processing"]
         /\ requests' = [requests EXCEPT
                             ![r] = [IdleRequest EXCEPT !.kind = "extract",
                                                        !.pc = "extracting",
                                                        !.user = caller.user,
                                                        !.document_id = caller.document_id]]

ExtractStart(r) ==
    /\ Starts(r)
    /\ \E caller \in Callers : ExtractStartOf(r, caller)
    /\ UNCHANGED <<validation_results, users, sessions, now>>
    /\ UNCHANGED callVars

\* extract_document returned: the PENDING record with the extraction
ExtractFinish(r) ==
    /\ r \in DOMAIN requests
    /\ requests[r].pc = "extracting"
    /\ \E extraction_result \in DocumentExtractions :
           /\ validation_results' =
                  Append(validation_results,
                         ValidationResult(requests[r].document_id, "PENDING", <<>>, <<>>,
                                          <<extraction_result>>, NextCreatedAt))
           /\ documents' =
                  [documents EXCEPT
                       ![requests[r].document_id].status =
                           IF extraction_result.status = "completed"
                           THEN "completed" ELSE "failed"]
           /\ requests' = [requests EXCEPT
                               ![r] = Responded("extract", requests[r], 200,
                                                <<extraction_result>>)]
    /\ UNCHANGED <<users, sessions, now>>
    /\ UNCHANGED callVars

\* extract_document raised
ExtractFail(r) ==
    /\ r \in DOMAIN requests
    /\ requests[r].pc = "extracting"
    /\ documents' = [documents EXCEPT ![requests[r].document_id].status = "failed"]
    /\ \E status_code \in {503, 500} :
           requests' = [requests EXCEPT
                            ![r] = Responded("extract", requests[r], status_code, <<>>)]
    /\ UNCHANGED <<validation_results, users, sessions, now>>
    /\ UNCHANGED callVars

\* GET /documents/{id}/extraction: scalar_one_or_none() of all the rows of
\* the document raises MultipleResultsFound when there are several
GetExtractionOf(caller) ==
    IF DocumentAccess(caller) # 0
    THEN Responded("get_extraction", caller, DocumentAccess(caller), <<>>)
    ELSE IF ResultsOf(caller.document_id) = {}
    THEN Responded("get_extraction", caller, 404, <<>>)
    ELSE IF Cardinality(ResultsOf(caller.document_id)) > 1
    THEN Responded("get_extraction", caller, 500, <<"MultipleResultsFound">>)
    ELSE IF LatestResult(caller.document_id).extraction = <<>>
    THEN Responded("get_extraction", caller, 404, <<>>)
    ELSE Responded("get_extraction", caller, 200, LatestResult(caller.document_id).extraction)

GetExtraction(r) ==
    /\ Starts(r)
    /\ \E caller \in Callers : requests' = [requests EXCEPT ![r] = GetExtractionOf(caller)]
    /\ UNCHANGED <<documents, validation_results, users, sessions, now>>
    /\ UNCHANGED callVars

\* POST /documents/{id}/validate, steps 1 to 4: the latest record is read
ValidateReadOf(caller, test_date) ==
    IF DocumentAccess(caller) # 0
    THEN Responded("validate", caller, DocumentAccess(caller), <<>>)
    ELSE IF ResultsOf(caller.document_id) = {}
    THEN Responded("validate", caller, 404, <<>>)
    ELSE IF LatestResult(caller.document_id).extraction = <<>>
    THEN Responded("validate", caller, 400, <<>>)
    ELSE IF LatestResult(caller.document_id).extraction[1].status = "failed"
    THEN Responded("validate", caller, 400, <<>>)
    ELSE [IdleRequest EXCEPT !.kind = "validate", !.pc = "validating",
                             !.user = caller.user, !.document_id = caller.document_id,
                             !.test_date = test_date,
                             !.read = <<LatestResult(caller.document_id)>>]

ValidateRead(r) ==
    /\ Starts(r)
    /\ \E caller \in Callers, test_date \in ValidateDates :
           requests' = [requests EXCEPT ![r] = ValidateReadOf(caller, test_date)]
    /\ UNCHANGED <<documents, validation_results, users, sessions, now>>
    /\ UNCHANGED callVars

\* the body of the response: ValidationResponse
ValidationResponse(document_id, status, findings) ==
    [document_id |-> document_id,
     status      |-> status,
     findings    |-> [i \in 1..Len(findings) |-> finding_to_response(findings[i])]]

\* the latest record of the document updated in place
ValidateStoreInPlace(r, request, findings) ==
    /\ validation_results' =
           [validation_results EXCEPT
                ![CHOOSE i \in ResultsOf(request.document_id) :
                      \A j \in ResultsOf(request.document_id) : j <= i] =
                    ValidationResult(request.document_id, compute_status(findings), findings,
                                     evidence_summary(request.document_id, request.test_date,
                                                      request.read[1].extraction[1], findings),
                                     request.read[1].extraction, @.created_at)]
    /\ requests' =
           [requests EXCEPT
                ![r] = Responded("validate", request, 200,
                                 <<ValidationResponse(request.document_id,
                                                      compute_status(findings), findings)>>)]

\* steps 6 to 9 for the findings of step 5: the new record is committed and
\* the response returned
ValidateStore(r, request, findings) ==
    /\ validation_results' =
           Append(validation_results,
                  ValidationResult(request.document_id, compute_status(findings), findings,
                                   evidence_summary(request.document_id, request.test_date,
                                                    request.read[1].extraction[1], findings),
                                   request.read[1].extraction, NextCreatedAt))
    /\ requests' =
           [requests EXCEPT
                ![r] = Responded("validate", request, 200,
                                 <<ValidationResponse(request.document_id,
                                                      compute_status(findings), findings)>>)]

ValidateCommit(r) ==
    /\ r \in DOMAIN requests
    /\ requests[r].pc = "validating"
    /\ ValidateStore(r, requests[r],
                     all_findings(requests[r].read[1].extraction[1], requests[r].test_date))
    /\ UNCHANGED <<documents, users, sessions, now>>
    /\ UNCHANGED callVars

\* the database after the upload of one document by alice
UploadedDocuments == [d \in {"d1"} |-> [user_id |-> "alice", status |-> "uploaded"]]

InitDocuments ==
    /\ NoCall
    /\ documents = UploadedDocuments
    /\ validation_results = <<>>
    /\ users = <<>>
    /\ sessions = <<>>
    /\ requests = [r \in 1..MaxRequests |-> IdleRequest]
    /\ now = 0

\* the database after one extraction, and one request to come
InitValidate ==
    /\ NoCall
    /\ documents = [UploadedDocuments EXCEPT !["d1"].status = "completed"]
    /\ \E extraction_result \in ExtractionSamples :
           validation_results =
               <<ValidationResult("d1", "PENDING", <<>>, <<>>, <<extraction_result>>, 1)>>
    /\ users = <<>>
    /\ sessions = <<>>
    /\ requests = [r \in 1..1 |-> IdleRequest]
    /\ now = 0

NextDocuments ==
    \E r \in DOMAIN requests :
        \/ ExtractStart(r)
        \/ ExtractFinish(r)
        \/ ExtractFail(r)
        \/ GetExtraction(r)
        \/ ValidateRead(r)
        \/ ValidateCommit(r)

NextValidate == \E r \in DOMAIN requests : ValidateRead(r) \/ ValidateCommit(r)

(***************************************************************************)
(* Authentication: routes/auth.py, dependencies.py, routes/admin.py        *)
(*                                                                         *)
(* The clock counts minutes.  A row of users or sessions is read when the  *)
(* select of the handler is answered and written when the handler commits; *)
(* what the handler computes in between it computes from the row it read,  *)
(* and the flush writes the columns whose value the handler changed.       *)
(* created_at of a session is its position in the table.                   *)
(***************************************************************************)
MAX_FAILED_ATTEMPTS == 3

LOCKOUT_DURATION_MINUTES == 30

MAX_CONCURRENT_SESSIONS == 3

ACCESS_TOKEN_EXPIRE_MINUTES == 480

\* models.py, User: the columns the handlers read; locked_until is <<>> for
\* None and <<t>> for a time
User(password, is_superuser) ==
    [password              |-> password,
     is_superuser          |-> is_superuser,
     is_active             |-> TRUE,
     must_change_password  |-> FALSE,
     failed_login_attempts |-> 0,
     locked_until          |-> <<>>]

\* services/auth.py, create_access_token without remember_me: the claims of
\* the JWT; two tokens with the same claims are the same token
create_access_token(user_id, is_admin, at) ==
    [sub |-> user_id, is_admin |-> is_admin, exp |-> at + ACCESS_TOKEN_EXPIRE_MINUTES]

\* services/auth.py, verify_token: the signature is the server's and exp has
\* not passed
verify_token(token, at) == token.exp >= at

\* services/auth.py, hash_token: the SHA-256 of the token, taken to be
\* different for different tokens
hash_token(token) == <<"sha256", token>>

\* models.py, Session
Session(user_id, token_hash, expires_at) ==
    [user_id    |-> user_id,
     token_hash |-> token_hash,
     expires_at |-> expires_at,
     is_revoked |-> FALSE]

\* the sessions of a user that are not revoked and expire after a time,
\* ordered by created_at
ActiveSessions(user_id, at) ==
    SelectSeq([i \in 1..Len(sessions) |-> i],
              LAMBDA i : /\ sessions[i].user_id = user_id
                         /\ ~sessions[i].is_revoked
                         /\ sessions[i].expires_at > at)

\* the tokens the server has issued: a client presents one of them
IssuedTokens == {sessions[i].token_hash[2] : i \in 1..Len(sessions)}

\* select(Session).where(token_hash == ...).order_by(created_at.desc())
\* .limit(1): the position of the latest session of the token, 0 for none
LatestSessionOf(token, rows) ==
    IF rows = {} THEN 0 ELSE CHOOSE i \in rows : \A j \in rows : j <= i

SessionsOf(token) == {i \in 1..Len(sessions) : sessions[i].token_hash = hash_token(token)}

LiveSessionsOf(token) == {i \in SessionsOf(token) : ~sessions[i].is_revoked}

\* a request of the authentication service: who asks
Client(email) == [user |-> email, document_id |-> ""]

\* a request that waits for the database, with what its handler holds
Waiting(kind, email, position, held) ==
    [IdleRequest EXCEPT !.kind = kind, !.pc = position, !.user = email, !.read = <<held>>]

\* login up to the answer of select(User): unknown email 401, locked 403; a
\* wrong password counts a failure, to be committed; a right one resets the
\* counters and makes the token, and the active sessions are selected
LoginReadUserOf(email, password) ==
    IF email \notin DOMAIN users
    THEN Responded("login", Client(email), 401, <<"unknown">>)
    ELSE IF users[email].locked_until # <<>> /\ users[email].locked_until[1] > now
    THEN Responded("login", Client(email), 403, <<"locked">>)
    ELSE IF password # users[email].password
    THEN Waiting("login", email, "failing",
                 [user |-> users[email],
                  failed_login_attempts |-> users[email].failed_login_attempts + 1,
                  locked_until |->
                      IF users[email].failed_login_attempts + 1 >= MAX_FAILED_ATTEMPTS
                      THEN <<now + LOCKOUT_DURATION_MINUTES>>
                      ELSE users[email].locked_until])
    ELSE Waiting("login", email, "sessions",
                 [user |-> users[email],
                  token |-> create_access_token(email, users[email].is_superuser, now),
                  at |-> now,
                  revoke |-> {}])

LoginReadUser(r) ==
    /\ Starts(r)
    /\ \E email \in Emails, password \in Passwords :
           requests' = [requests EXCEPT ![r] = LoginReadUserOf(email, password)]
    /\ UNCHANGED <<documents, validation_results, users, sessions, now>>
    /\ UNCHANGED callVars

\* the row of a user after the flush of a handler that read it as `read` and
\* left it as `written`: the columns the handler changed
Flushed(row, read, written) ==
    [row EXCEPT
         !.failed_login_attempts =
             IF written.failed_login_attempts # read.failed_login_attempts
             THEN written.failed_login_attempts ELSE @,
         !.locked_until =
             IF written.locked_until # read.locked_until THEN written.locked_until ELSE @]

\* login with a wrong password: the commit of the failure, and 401
LoginFail(r) ==
    /\ r \in DOMAIN requests
    /\ requests[r].pc = "failing"
    /\ users' = [users EXCEPT
                     ![requests[r].user] =
                         Flushed(@, requests[r].read[1].user, requests[r].read[1])]
    /\ requests' = [requests EXCEPT
                        ![r] = Responded("login", requests[r], 401, <<"password">>)]
    /\ UNCHANGED <<documents, validation_results, sessions, now>>
    /\ UNCHANGED callVars

\* the oldest of the active sessions, as many as make room for one more
SessionsToRevoke(active) ==
    IF Len(active) >= MAX_CONCURRENT_SESSIONS
    THEN {active[i] : i \in 1..(Len(active) - MAX_CONCURRENT_SESSIONS + 1)}
    ELSE {}

\* login: the answer of the select of the active sessions
LoginReadSessions(r) ==
    /\ r \in DOMAIN requests
    /\ requests[r].pc = "sessions"
    /\ requests' =
           [requests EXCEPT
                ![r].pc = "committing",
                ![r].read[1].revoke =
                    SessionsToRevoke(ActiveSessions(requests[r].user,
                                                    requests[r].read[1].at))]
    /\ UNCHANGED <<documents, validation_results, users, sessions, now>>
    /\ UNCHANGED callVars

\* the sessions after the commit of a login: the oldest revoked, the new one
\* added
WithNewSession(revoke, user_id, token) ==
    Append([i \in 1..Len(sessions) |->
                IF i \in revoke THEN [sessions[i] EXCEPT !.is_revoked = TRUE]
                ELSE sessions[i]],
           Session(user_id, hash_token(token), token.exp))

\* login: the commit of the counters, the revocations and the new session
LoginCommit(r) ==
    /\ r \in DOMAIN requests
    /\ requests[r].pc = "committing"
    /\ users' = [users EXCEPT
                     ![requests[r].user] =
                         Flushed(@, requests[r].read[1].user,
                                 [failed_login_attempts |-> 0, locked_until |-> <<>>])]
    /\ sessions' = WithNewSession(requests[r].read[1].revoke, requests[r].user,
                                  requests[r].read[1].token)
    /\ requests' = [requests EXCEPT
                        ![r] = Responded("login", requests[r], 200,
                                         <<requests[r].read[1].token>>)]
    /\ UNCHANGED <<documents, validation_results, now>>
    /\ UNCHANGED callVars

\* a request that presents a token, answered
Presented(kind, token, status_code) ==
    [Responded(kind, Client(token.sub), status_code, <<token>>) EXCEPT !.read = <<token>>]

\* logout: the latest session of the token is revoked; no verify_token
Logout(r) ==
    /\ Starts(r)
    /\ \E token \in IssuedTokens :
           IF \/ SessionsOf(token) = {}
              \/ sessions[LatestSessionOf(token, SessionsOf(token))].is_revoked
           THEN /\ requests' = [requests EXCEPT ![r] = Presented("logout", token, 401)]
                /\ UNCHANGED sessions
           ELSE /\ sessions' =
                       [sessions EXCEPT
                            ![LatestSessionOf(token, SessionsOf(token))].is_revoked = TRUE]
                /\ requests' = [requests EXCEPT ![r] = Presented("logout", token, 204)]
    /\ UNCHANGED <<documents, validation_results, users, now>>
    /\ UNCHANGED callVars

\* dependencies.py, require_auth over get_current_user: 0 when the request
\* may proceed
require_auth(token) ==
    IF ~verify_token(token, now) THEN 401
    ELSE IF LiveSessionsOf(token) = {} THEN 401
    ELSE IF token.sub \notin DOMAIN users THEN 401
    ELSE IF ~users[token.sub].is_active THEN 403
    ELSE IF users[token.sub].must_change_password THEN 403
    ELSE 0

\* an endpoint behind Depends(require_auth): the documents and the history
AccessDocuments(r) ==
    /\ Starts(r)
    /\ \E token \in IssuedTokens :
           requests' =
               [requests EXCEPT
                    ![r] = Presented("documents", token,
                                     IF require_auth(token) = 0 THEN 200
                                     ELSE require_auth(token))]
    /\ UNCHANGED <<documents, validation_results, users, sessions, now>>
    /\ UNCHANGED callVars

\* GET /auth/sessions: verify_token, then the active sessions of the user
ListSessions(r) ==
    /\ Starts(r)
    /\ \E token \in IssuedTokens :
           requests' =
               [requests EXCEPT
                    ![r] = IF ~verify_token(token, now)
                           THEN Presented("list_sessions", token, 401)
                           ELSE [Presented("list_sessions", token, 200) EXCEPT
                                     !.response[1].body =
                                         ActiveSessions(token.sub, now)]]
    /\ UNCHANGED <<documents, validation_results, users, sessions, now>>
    /\ UNCHANGED callVars

\* POST /auth/change-password: verify_token, the current password, and the
\* commit of the new one
ChangePasswordOf(r, token, current_password, new_password) ==
    IF ~verify_token(token, now) \/ token.sub \notin DOMAIN users
    THEN /\ requests' = [requests EXCEPT ![r] = Presented("change_password", token, 401)]
         /\ UNCHANGED users
    ELSE IF current_password # users[token.sub].password
    THEN /\ requests' = [requests EXCEPT ![r] = Presented("change_password", token, 400)]
         /\ UNCHANGED users
    ELSE /\ users' = [users EXCEPT ![token.sub].password = new_password,
                                   ![token.sub].must_change_password = FALSE]
         /\ requests' = [requests EXCEPT ![r] = Presented("change_password", token, 204)]

ChangePassword(r) ==
    /\ Starts(r)
    /\ \E token \in IssuedTokens, current_password \in Passwords, new_password \in Passwords :
           ChangePasswordOf(r, token, current_password, new_password)
    /\ UNCHANGED <<documents, validation_results, sessions, now>>
    /\ UNCHANGED callVars

\* admin.py, require_admin: 0 when the request may proceed
require_admin(token) ==
    IF ~verify_token(token, now) THEN 401
    ELSE IF ~token.is_admin THEN 403
    ELSE IF token.sub \notin DOMAIN users THEN 403
    ELSE IF ~users[token.sub].is_superuser THEN 403
    ELSE 0

\* POST /admin/users/{user_id}/unlock
UnlockUserOf(r, token, user_id) ==
    IF require_admin(token) # 0
    THEN /\ requests' = [requests EXCEPT ![r] = Presented("unlock", token, require_admin(token))]
         /\ UNCHANGED users
    ELSE /\ users' = [users EXCEPT ![user_id].failed_login_attempts = 0,
                                   ![user_id].locked_until = <<>>]
         /\ requests' = [requests EXCEPT ![r] = Presented("unlock", token, 204)]

UnlockUser(r) ==
    /\ Starts(r)
    /\ \E token \in IssuedTokens, user_id \in DOMAIN users \ {"root"} :
           UnlockUserOf(r, token, user_id)
    /\ UNCHANGED <<documents, validation_results, sessions, now>>
    /\ UNCHANGED callVars

\* the clock advances
Tick(minutes, until) ==
    /\ now + minutes <= until
    /\ now' = now + minutes
    /\ UNCHANGED <<documents, validation_results, users, sessions, requests>>
    /\ UNCHANGED callVars

\* the accounts: a user and an administrator
Accounts == [email \in {"alice", "root"} |-> User("pw", email = "root")]

\* the session of a login of the account at a time
SessionAt(email, at) ==
    Session(email, hash_token(create_access_token(email, Accounts[email].is_superuser, at)),
            at + ACCESS_TOKEN_EXPIRE_MINUTES)

\* the service at a time, with the sessions of the logins there have been
\* and the requests to come
InitService(logins, time, count) ==
    /\ NoCall
    /\ documents = <<>>
    /\ validation_results = <<>>
    /\ users = Accounts
    /\ sessions = logins
    /\ requests = [r \in 1..count |-> IdleRequest]
    /\ now = time

\* the administrator is logged in
InitLockout == InitService(<<SessionAt("root", 0)>>, 0, MaxLoginRequests)

NextLockout ==
    \/ \E r \in DOMAIN requests :
           \/ LoginReadUser(r)
           \/ LoginFail(r)
           \/ LoginReadSessions(r)
           \/ LoginCommit(r)
           \/ UnlockUser(r)
    \/ Tick(LOCKOUT_DURATION_MINUTES, MaxLockoutNow)

\* alice has logged in twice
InitSessions ==
    InitService(<<SessionAt("alice", 0), SessionAt("alice", 1)>>, 2, MaxSessionRequests)

NextSessions ==
    \/ \E r \in DOMAIN requests :
           \/ LoginReadUser(r)
           \/ LoginFail(r)
           \/ LoginReadSessions(r)
           \/ LoginCommit(r)
           \/ Logout(r)
    \/ Tick(1, MaxSessionsNow)

\* alice and the administrator are logged in
InitRevocation ==
    InitService(<<SessionAt("alice", 0), SessionAt("root", 0)>>, 1, MaxTokenRequests)

NextRevocation ==
    \E r \in DOMAIN requests :
        \/ Logout(r)
        \/ AccessDocuments(r)
        \/ ListSessions(r)
        \/ ChangePassword(r)
        \/ UnlockUser(r)

InitDate == InitCall("parse_date", ParseDateCalls)

InitStatus == InitCall("compute_status", ComputeStatusCalls)

InitCalibration == InitCall("validate_calibration", CalibrationCalls)

InitSerial == InitCall("validate_serial_consistency", SerialCalls)

InitValidators ==
    \/ InitCalibration
    \/ InitSerial
    \/ InitCall("validate_camera_config", CameraConfigCalls)
    \/ InitCall("validate_phase_delta", PhaseDeltaCalls)
    \/ InitCall("validate_grounding_calibration", GroundingCalibrationCalls)
    \/ InitCall("validate_grounding_resistance", GroundingResistanceCalls)
    \/ InitCall("validate_test_method", TestMethodCalls)
    \/ InitCall("validate_megger_calibration", MeggerCalibrationCalls)
    \/ InitCall("validate_test_voltage", TestVoltageCalls)
    \/ InitCall("validate_insulation_resistance", InsulationResistanceCalls)

Init ==
    \/ InitDate
    \/ InitStatus
    \/ InitValidators
    \/ InitDocuments
    \/ InitValidate
    \/ InitLockout
    \/ InitSessions
    \/ InitRevocation

NextValidators ==
    \/ ValidateCalibration
    \/ ValidateSerialConsistency
    \/ ValidateCameraConfig
    \/ ValidatePhaseDelta
    \/ ValidateGroundingCalibration
    \/ ValidateGroundingResistance
    \/ ValidateTestMethod
    \/ ValidateMeggerCalibration
    \/ ValidateTestVoltage
    \/ ValidateInsulationResistance

Next ==
    \/ ParseDate
    \/ ComputeStatus
    \/ NextValidators
    \/ NextDocuments
    \/ NextLockout
    \/ NextSessions
    \/ NextRevocation

Spec == Init /\ [][Next]_vars

SpecDate == InitDate /\ [][ParseDate]_vars

SpecStatus == InitStatus /\ [][ComputeStatus]_vars

SpecCalibration == InitCalibration /\ [][ValidateCalibration]_vars

SpecDocuments == InitDocuments /\ [][NextDocuments]_vars

SpecValidate == InitValidate /\ [][NextValidate]_vars

SpecLockout == InitLockout /\ [][NextLockout]_vars

\* the requests in the middle of their handler
InFlight == {r \in DOMAIN requests : requests[r].pc \notin {"idle", "done"}}

\* the step is of the request that is in the middle of its handler, if any
OneAtATime == \A r \in InFlight : requests'[r] # requests[r]

\* the requests are served one at a time
SpecLockoutOneAtATime == InitLockout /\ [][NextLockout /\ OneAtATime]_vars

SpecSessionsOneAtATime == InitSessions /\ [][NextSessions /\ OneAtATime]_vars

SpecSessions == InitSessions /\ [][NextSessions]_vars

SpecRevocation == InitRevocation /\ [][NextRevocation]_vars

SpecSerial == InitSerial /\ [][ValidateSerialConsistency]_vars

SpecValidators == InitValidators /\ [][NextValidators]_vars

SpecCamera ==
    InitCall("validate_camera_config", CameraConfigCalls) /\ [][ValidateCameraConfig]_vars

SpecPhase == InitCall("validate_phase_delta", PhaseDeltaCalls) /\ [][ValidatePhaseDelta]_vars

SpecPhaseMany ==
    InitCall("validate_phase_delta", ManyPhaseDeltaCalls) /\ [][ValidatePhaseDelta]_vars

SpecTestMethod ==
    InitCall("validate_test_method", TestMethodCalls) /\ [][ValidateTestMethod]_vars

SpecVoltage ==
    InitCall("validate_test_voltage", TestVoltageCalls) /\ [][ValidateTestVoltage]_vars

SpecInsulation ==
    /\ InitCall("validate_insulation_resistance", InsulationResistanceCalls)
    /\ [][ValidateInsulationResistance]_vars

SpecWrappers ==
    /\ \/ InitCall("validate_grounding_calibration", GroundingCalibrationCalls)
       \/ InitCall("validate_megger_calibration", MeggerCalibrationCalls)
    /\ [][ValidateGroundingCalibration \/ ValidateMeggerCalibration]_vars

(***************************************************************************)
(* Properties of compute_status                                            *)
(***************************************************************************)
SeveritiesOf(findings) == {findings[i].severity : i \in 1..Len(findings)}

StatusDone == op = "compute_status" /\ pc = "done"

\* C2: compute_status is a function of the set of severities present:
\* REJECTED iff an ERROR is present, REVIEW_NEEDED iff no ERROR and a WARNING
\* is present, APPROVED otherwise (the empty list included); every list with
\* the same severities (a permutation, a list with duplicates) gets the same
\* status, and PENDING and FAILED are never returned.
C2_StatusIsFunctionOfSeverities ==
    StatusDone =>
        LET sevs == SeveritiesOf(arg.findings)
        IN  /\ ret \in {"APPROVED", "REVIEW_NEEDED", "REJECTED"}
            /\ (ret = "REJECTED") <=> ("ERROR" \in sevs)
            /\ (ret = "REVIEW_NEEDED") <=> ("ERROR" \notin sevs /\ "WARNING" \in sevs)
            /\ (ret = "APPROVED") <=> (sevs \subseteq {"INFO"})
            /\ \A other \in FindingLists :
                   SeveritiesOf(other) = sevs => compute_status(other) = ret

C2_Witness ==
    /\ StatusDone
    /\ Len(arg.findings) = 3
    /\ arg.findings[1].severity = "WARNING"
    /\ arg.findings[2].severity = "INFO"
    /\ arg.findings[3].severity = "WARNING"
    /\ ret = "REVIEW_NEEDED"

StatusRank(status) ==
    IF status = "APPROVED" THEN 0 ELSE IF status = "REVIEW_NEEDED" THEN 1 ELSE 2

\* C3: with APPROVED < REVIEW_NEEDED < REJECTED, the status of L + [f] is
\* never below the status of L; if f is an ERROR the status is REJECTED; a
\* list of INFO findings only is APPROVED.
C3_StatusMonotone ==
    StatusDone =>
        /\ arg.findings # <<>> =>
               LET L == SubSeq(arg.findings, 1, Len(arg.findings) - 1)
                   f == arg.findings[Len(arg.findings)]
               IN  /\ StatusRank(ret) >= StatusRank(compute_status(L))
                   /\ f.severity = "ERROR" => ret = "REJECTED"
        /\ SeveritiesOf(arg.findings) \subseteq {"INFO"} => ret = "APPROVED"

C3_Witness ==
    /\ StatusDone
    /\ Len(arg.findings) = 3
    /\ arg.findings[1].severity = "ERROR"
    /\ arg.findings[3].severity = "INFO"
    /\ ret = "REJECTED"

(***************************************************************************)
(* Properties of parse_date                                                *)
(***************************************************************************)
DateDone == op = "parse_date" /\ pc = "done"

\* the trimmed string matches the fixed-width pattern of the format
MatchesPattern(raw, fmt) ==
    /\ raw # NoneStr
    /\ IF fmt = "ISO" THEN ISO_PATTERN(Strip(raw))
       ELSE IF fmt = "DD_MM_YYYY" THEN DD_MM_YYYY_PATTERN(Strip(raw))
       ELSE fmt = "MM_DD_YY" /\ MM_DD_YY_PATTERN(Strip(raw))

\* the day-first reading of a string that matches the dd/mm/yyyy pattern
DayFirstReading(raw) ==
    LET p == Split(Strip(raw), "/")
    IN  Date(IntOf(p[3]).v, IntOf(p[2]).v, IntOf(p[1]).v)

\* C5: for a string that matches the day/month/4-digit-year slash pattern and
\* for every hint, parse_date returns null or the date whose day is the first
\* number and whose month is the second; never the month-first reading.
C5_DayFirstForEveryHint ==
    (DateDone /\ MatchesPattern(arg.raw, "DD_MM_YYYY")) =>
        (ret = NoDate \/ ret = DayFirstReading(arg.raw))

\* the part of C5 the code keeps: without a hint, with the ISO hint or with the
\* DD_MM_YYYY hint
C5_DayFirstUnlessHintedMonthFirst ==
    (DateDone /\ MatchesPattern(arg.raw, "DD_MM_YYYY") /\ arg.hint # "MM_DD_YY") =>
        (ret = NoDate \/ ret = DayFirstReading(arg.raw))

\* the input is a calendar date written in one of the three formats
ValidSupportedDate(raw) ==
    \E fmt \in Formats :
        MatchesPattern(raw, fmt) /\ try_format(Strip(raw), fmt).kind = "date"

\* C6: parse_date never raises: for every input and every hint it returns a
\* date or null, and it returns null whenever the input is not a valid date in
\* a supported format.
C6_NeverRaises ==
    DateDone =>
        /\ ret.kind \in {"date", "None"}
        /\ ~ValidSupportedDate(arg.raw) => ret = NoDate

\* the part of C6 the code keeps: the call without a hint
C6_NeverRaisesWithoutHint ==
    (DateDone /\ arg.hint = "None") =>
        /\ ret.kind \in {"date", "None"}
        /\ ~ValidSupportedDate(arg.raw) => ret = NoDate

\* C7: a format's numeric parsing is applied only to a string that matches
\* the format's pattern, also for a hinted format: when the string does not
\* match the hinted format's pattern, the call returns what the call without a
\* hint returns.
C7_HintNeedsPatternMatch ==
    (DateDone /\ arg.hint # "None" /\ arg.raw # NoneStr
        /\ ~MatchesPattern(arg.raw, arg.hint)) =>
        ret = parse_date(arg.raw, "None")

\* C8: a date written in a format that can express it and parsed without a
\* hint, or with that format as the hint, comes back as the same date.
C8_RoundTrip ==
    (DateDone /\ arg.written # <<>> /\ arg.hint \in {"None", arg.written[1].fmt}) =>
        ret = arg.written[1].d

C8_Witness ==
    /\ DateDone
    /\ arg.written # <<>>
    /\ arg.written[1].fmt = "MM_DD_YY"
    /\ arg.written[1].d.d > 12
    /\ arg.hint = "MM_DD_YY"
    /\ ret = arg.written[1].d

(***************************************************************************)
(* Properties of validate_calibration                                      *)
(***************************************************************************)
CalibrationDone == op = "validate_calibration" /\ pc = "done"

\* days are ordered as their (year, month, day) triples are
DayNumber(d) == (d.y * 12 + d.m) * 31 + d.d

\* C4: validate_calibration returns exactly one finding, by first match:
\* WARNING if expiration_date is absent or its value is null; else WARNING if
\* the value does not parse as a date; else ERROR iff the parsed expiration is
\* strictly before test_date; else INFO (expiring on the test date is INFO).
C4_CalibrationDecisionTable ==
    CalibrationDone =>
        LET exp    == arg.calibration.expiration_date
            parsed == parse_date(exp.value, "None")
        IN  /\ Len(ret) = 1
            /\ ret[1].rule_id = arg.rule_id
            /\ IF ~exp.present \/ exp.value = NoneStr
               THEN ret[1].severity = "WARNING" /\ ret[1].found_value = NoneStr
               ELSE IF parsed.kind # "date"
               THEN ret[1].severity = "WARNING" /\ ret[1].found_value = exp.value
               ELSE IF DayNumber(parsed) < DayNumber(arg.test_date)
               THEN ret[1].severity = "ERROR"
               ELSE ret[1].severity = "INFO"

\* a certificate that expires on the day of the test
C4_Witness ==
    /\ CalibrationDone
    /\ arg.calibration.expiration_date.present
    /\ parse_date(arg.calibration.expiration_date.value, "None") = arg.test_date
    /\ ret[1].severity = "INFO"

(***************************************************************************)
(* Properties of validate_serial_consistency                               *)
(***************************************************************************)
SerialDone == op = "validate_serial_consistency" /\ pc = "done"

\* the positions of the input fields that carry a value
ValuedPositions(fields) == {i \in 1..Len(fields) : fields[i].value # NoneStr}

\* C9: with fewer than 2 non-null values the result is exactly one INFO
\* 'skipped' finding; its found_value is the sole value whenever exactly one
\* input field has a non-null value, however many null-valued fields accompany
\* it, and null when no field has one.
C9_SkippedCarriesSoleValue ==
    (SerialDone /\ Cardinality(ValuedPositions(arg.serial_numbers)) < 2) =>
        LET valued == ValuedPositions(arg.serial_numbers)
        IN  /\ Len(ret) = 1
            /\ ret[1].severity = "INFO"
            /\ \A i \in valued : ret[1].found_value = arg.serial_numbers[i].value
            /\ valued = {} => ret[1].found_value = NoneStr

\* the part of C9 the code keeps: one INFO finding, which carries the sole value
\* when the list holds that field alone
C9_SkippedIsOneInfo ==
    (SerialDone /\ Cardinality(ValuedPositions(arg.serial_numbers)) < 2) =>
        /\ Len(ret) = 1
        /\ ret[1].severity = "INFO"
        /\ Len(arg.serial_numbers) = 1 => ret[1].found_value = arg.serial_numbers[1].value
        /\ ValuedPositions(arg.serial_numbers) = {} => ret[1].found_value = NoneStr

\* the orderings of a finite set of strings
Orderings(S) ==
    {q \in [1..Cardinality(S) -> S] : \A i, j \in DOMAIN q : i # j => q[i] # q[j]}

\* the number of positions of s below i that are in P
RECURSIVE CountBelow(_, _)
CountBelow(P, i) ==
    IF i <= 1 THEN 0 ELSE CountBelow(P, i - 1) + (IF (i - 1) \in P THEN 1 ELSE 0)

\* C10: with at least 2 non-null values whose strip().upper() forms are not
\* all the same, the result is one ERROR finding whose found_value is the
\* distinct normal forms, sorted and joined by ', ', followed by one INFO
\* finding per input field with a non-null value (duplicates included, in
\* input order, with that field's location); there is no other ERROR.
C10_MismatchEvidence ==
    LET fields == arg.serial_numbers
        valued == ValuedPositions(fields)
        forms  == {Upper(Strip(fields[i].value)) : i \in valued}
    IN  (SerialDone /\ Cardinality(valued) >= 2 /\ Cardinality(forms) > 1) =>
            /\ Len(ret) = 1 + Cardinality(valued)
            /\ ret[1].severity = "ERROR"
            /\ \E q \in Orderings(forms) :
                   /\ \A i \in 1..(Len(q) - 1) : StrLess(q[i], q[i + 1])
                   /\ ret[1].found_value = Join(q, <<",", " ">>)
            /\ \A i \in valued :
                   LET f == ret[1 + CountBelow(valued, i) + 1]
                   IN  /\ f.severity = "INFO"
                       /\ f.found_value = Upper(Strip(fields[i].value))
                       /\ f.location = fields[i].location
            /\ \A k \in 2..Len(ret) : ret[k].severity = "INFO"

\* three fields with a value, two of them the same serial number
C10_Witness ==
    /\ SerialDone
    /\ Len(arg.serial_numbers) = 3
    /\ ValuedPositions(arg.serial_numbers) = {1, 2, 3}
    /\ Upper(Strip(arg.serial_numbers[1].value)) = <<"B", "2">>
    /\ Upper(Strip(arg.serial_numbers[2].value)) = <<"A", "1">>
    /\ Upper(Strip(arg.serial_numbers[3].value)) = <<"B", "2">>
    /\ Len(ret) = 4
    /\ ret[1].found_value = <<"A", "1", ",", " ", "B", "2">>

(***************************************************************************)
(* Properties of the validators together                                   *)
(***************************************************************************)
ValidatorDone(name) == op = name /\ pc = "done"

HasError(findings) == \E i \in 1..Len(findings) : findings[i].severity = "ERROR"

\* the field is absent, or its value is null, empty or whitespace
Blank(field) == ~field.present \/ field.value = NoneStr \/ Strip(field.value) = <<>>

\* the field carries no number: it is blank or float() rejects its value
NoNumber(field) == Blank(field) \/ FloatOf(field.value).kind = "ValueError"

\* the calibration carries no expiration date: blank or not a date
NoExpiration(calibration) ==
    \/ Blank(calibration.expiration_date)
    \/ parse_date(calibration.expiration_date.value, "None") = NoDate

\* the calibration sub-object is None or carries no expiration date
NoCalibration(optional) == optional = <<>> \/ NoExpiration(optional[1])

\* C1: no validator emits an ERROR finding because a field it reads is absent,
\* null, blank or unparseable (a test method that is itself absent, null or
\* blank excepted). For a validator of one record: no ERROR when a field it
\* reads is missing. For a validator of a list: when an entry is missing, an
\* ERROR only if the entries that carry a value disagree by themselves (two
\* different serial numbers, two temperatures more than 15.0 apart).
C1_ZeroFalseRejections ==
    /\ (ValidatorDone("validate_calibration") /\ NoExpiration(arg.calibration))
           => ~HasError(ret)
    /\ (ValidatorDone("validate_grounding_calibration")
            /\ NoCalibration(arg.grounding.calibration))
           => ~HasError(ret)
    /\ (ValidatorDone("validate_megger_calibration")
            /\ NoCalibration(arg.megger.calibration))
           => ~HasError(ret)
    /\ (ValidatorDone("validate_camera_config")
            /\ (\/ arg.thermography = <<>>
                \/ NoNumber(arg.thermography[1].camera_ambient_temp)
                \/ NoNumber(arg.thermography[1].datalogger_temp)))
           => ~HasError(ret)
    /\ (ValidatorDone("validate_grounding_resistance")
            /\ NoNumber(arg.grounding.resistance_value))
           => ~HasError(ret)
    /\ (ValidatorDone("validate_test_method")
            /\ ~Blank(arg.grounding.test_method)
            /\ (\/ find_method_key(normalize_method(arg.grounding.test_method.value)) = 0
                \/ Blank(arg.grounding.installation_type)
                \/ Strip(Lower(arg.grounding.installation_type.value))
                       \notin {<<"n", "e", "w">>,
                               <<"e", "x", "i", "s", "t", "i", "n", "g">>}))
           => ~HasError(ret)
    /\ (ValidatorDone("validate_test_voltage")
            /\ (\/ NoNumber(arg.megger.equipment_voltage_rating)
                \/ NoNumber(arg.megger.test_voltage)))
           => ~HasError(ret)
    /\ (ValidatorDone("validate_insulation_resistance")
            /\ (\/ NoNumber(arg.megger.equipment_voltage_rating)
                \/ NoNumber(arg.megger.insulation_resistance)))
           => ~HasError(ret)
    /\ (ValidatorDone("validate_phase_delta")
            /\ \E i \in 1..Len(arg.phase_readings) : NoNumber(arg.phase_readings[i].value))
           => (HasError(ret) =>
                  \E i, j \in 1..Len(arg.phase_readings) :
                      /\ ~NoNumber(arg.phase_readings[i].value)
                      /\ ~NoNumber(arg.phase_readings[j].value)
                      /\ FloatGreater(FloatSub(FloatOf(arg.phase_readings[i].value.value),
                                               FloatOf(arg.phase_readings[j].value.value)),
                                      DELTA_ERROR_THRESHOLD))
    /\ (ValidatorDone("validate_serial_consistency")
            /\ \E i \in 1..Len(arg.serial_numbers) : Blank(arg.serial_numbers[i]))
           => (HasError(ret) =>
                  \E i, j \in 1..Len(arg.serial_numbers) :
                      /\ ~Blank(arg.serial_numbers[i])
                      /\ ~Blank(arg.serial_numbers[j])
                      /\ Upper(Strip(arg.serial_numbers[i].value))
                             # Upper(Strip(arg.serial_numbers[j].value)))

\* the part of C1 the code keeps: every validator but the serial number one,
\* and the serial number one when the missing values are null
C1_ZeroFalseRejectionsOfNull ==
    \/ C1_ZeroFalseRejections
    \/ /\ ValidatorDone("validate_serial_consistency")
       /\ \E i \in 1..Len(arg.serial_numbers) :
              /\ arg.serial_numbers[i].value # NoneStr
              /\ Strip(arg.serial_numbers[i].value) = <<>>

(***************************************************************************)
(* Properties of validate_serial_consistency: the consistent case          *)
(***************************************************************************)
\* the result is the single INFO 'consistent' finding
IsConsistentFinding(findings) ==
    /\ Len(findings) = 1
    /\ findings[1].severity = "INFO"
    /\ findings[1].message.template
           = "Serial numbers consistent: {} (found in {} locations)"

\* C11: the result is exactly one INFO 'consistent' finding, and no ERROR, if
\* and only if at least 2 input fields have non-null values and all those
\* values are equal after strip().upper(); the finding carries that common
\* value and reports as N the number of non-null fields.
C11_ConsistentIffEqualNormalForms ==
    SerialDone =>
        LET fields == arg.serial_numbers
            valued == ValuedPositions(fields)
            forms  == {Upper(Strip(fields[i].value)) : i \in valued}
        IN  /\ IsConsistentFinding(ret)
                <=> (Cardinality(valued) >= 2 /\ Cardinality(forms) = 1)
            /\ IsConsistentFinding(ret) =>
                   /\ ~HasError(ret)
                   /\ ret[1].found_value \in forms
                   /\ ret[1].message.args
                          = <<ret[1].found_value, Pad(Cardinality(valued), 1)>>

\* values that differ in case and in surrounding whitespace, beside a null one
C11_Witness ==
    /\ SerialDone
    /\ Len(arg.serial_numbers) = 3
    /\ arg.serial_numbers[1].value = <<"a", "1">>
    /\ arg.serial_numbers[2].value = NoneStr
    /\ arg.serial_numbers[3].value = <<" ", "A", "1", " ">>
    /\ IsConsistentFinding(ret)
    /\ ret[1].message.args = <<<<"A", "1">>, <<"2">>>>

(***************************************************************************)
(* Numbers in the properties of the measurement validators                 *)
(*                                                                         *)
(* A value is numeric when float() accepts it and returns a number:        *)
(* finite or infinite, but not NaN ("not a number").  A numeric value is   *)
(* compared by its position on the extended real line, in hundredths.      *)
(***************************************************************************)
\* the field is absent or its value is null
Unvalued(field) == ~field.present \/ field.value = NoneStr

IsNumeric(value) == FloatOf(value).kind \in {"finite", "inf"}

\* float() accepts the value: a number or NaN
FloatAccepts(value) == FloatOf(value).kind # "ValueError"

NumberOf(value) == FloatKey(FloatOf(value))

(***************************************************************************)
(* Properties of validate_camera_config                                    *)
(***************************************************************************)
CameraDone == ValidatorDone("validate_camera_config")

\* the decision table of C12 for thermography data that is present, with
\* Numeric(value) deciding which values count as numeric
CameraTable(data, findings, Numeric(_)) ==
    LET camera     == data.camera_ambient_temp
        datalogger == data.datalogger_temp
        only       == findings[1]
    IN  /\ Len(findings) = 1
        /\ IF Unvalued(camera)
           THEN only.severity = "WARNING" /\ only.field_name = "camera_ambient_temp"
           ELSE IF Unvalued(datalogger)
           THEN only.severity = "WARNING" /\ only.field_name = "datalogger_temp"
           ELSE IF ~Numeric(camera.value)
           THEN only.severity = "WARNING" /\ only.field_name = "camera_ambient_temp"
           ELSE IF ~Numeric(datalogger.value)
           THEN only.severity = "WARNING" /\ only.field_name = "datalogger_temp"
           ELSE IF NumberOf(camera.value) # NumberOf(datalogger.value)
           THEN only.severity = "ERROR"
           ELSE only.severity = "INFO"

\* C12: the result is empty iff the input is null; for thermography data it
\* is exactly one finding, by first match: WARNING if the camera temperature
\* is absent or null, else WARNING if the datalogger temperature is absent or
\* null, else WARNING if the camera value is not numeric, else WARNING if the
\* datalogger value is not numeric, else ERROR iff the two numbers differ and
\* INFO iff they are equal.
C12_CameraDecisionTable ==
    CameraDone =>
        /\ (ret = <<>>) <=> (arg.thermography = <<>>)
        /\ arg.thermography # <<>> => CameraTable(arg.thermography[1], ret, IsNumeric)

\* the part of C12 the code keeps: the table when neither value is NaN
C12_CameraDecisionTableWithoutNaN ==
    (CameraDone /\ arg.thermography # <<>>
        /\ \A f \in {arg.thermography[1].camera_ambient_temp,
                     arg.thermography[1].datalogger_temp} :
               Unvalued(f) \/ FloatOf(f.value).kind # "nan") =>
        CameraTable(arg.thermography[1], ret, IsNumeric)

(***************************************************************************)
(* Properties of validate_phase_delta                                      *)
(***************************************************************************)
PhaseDone == ValidatorDone("validate_phase_delta")

\* the positions of the readings whose value satisfies Good
ReadingsWith(readings, Good(_)) ==
    {i \in 1..Len(readings) : ~Unvalued(readings[i].value) /\ Good(readings[i].value.value)}

\* the greatest difference between two of the numbers at positions P
Spread(readings, P) ==
    LET nums == {NumberOf(readings[i].value.value) : i \in P}
    IN  CHOOSE d \in {a - b : a, b \in nums} : \A a, b \in nums : a - b <= d

\* the findings about the delta itself
ThresholdFindings(findings) ==
    {i \in 1..Len(findings) : findings[i].field_name = "phase_delta"}

\* the last finding is the only threshold finding, of the severity the table
\* gives to the spread of the readings at positions P
PhaseTable(readings, P, findings) ==
    /\ findings # <<>>
    /\ ThresholdFindings(findings) = {Len(findings)}
    /\ findings[Len(findings)].severity =
           IF Spread(readings, P) > 15 * Scale THEN "ERROR"
           ELSE IF Spread(readings, P) > 3 * Scale THEN "WARNING"
           ELSE "INFO"

\* C13: with at least 2 numeric readings the result ends with exactly one
\* threshold finding for delta = max - min over the numeric values: ERROR iff
\* delta > 15.0, WARNING iff 3.0 < delta <= 15.0, INFO iff delta <= 3.0.
C13_PhaseThresholds ==
    (PhaseDone /\ Cardinality(ReadingsWith(arg.phase_readings, IsNumeric)) >= 2) =>
        PhaseTable(arg.phase_readings, ReadingsWith(arg.phase_readings, IsNumeric), ret)

\* the part of C13 the code keeps: the table when no reading is NaN
C13_PhaseThresholdsWithoutNaN ==
    (PhaseDone /\ Cardinality(ReadingsWith(arg.phase_readings, IsNumeric)) >= 2
        /\ ReadingsWith(arg.phase_readings, FloatAccepts)
               = ReadingsWith(arg.phase_readings, IsNumeric)) =>
        PhaseTable(arg.phase_readings, ReadingsWith(arg.phase_readings, IsNumeric), ret)

\* at least 2 readings, of which float() accepts fewer than 2
FewerThanTwoParse ==
    /\ PhaseDone
    /\ Len(arg.phase_readings) >= 2
    /\ Cardinality(ReadingsWith(arg.phase_readings, FloatAccepts)) < 2

\* the labels of the readings at the positions outside P, in input order
RECURSIVE LabelsOutside(_, _, _)
LabelsOutside(readings, P, i) ==
    IF i > Len(readings) THEN <<>>
    ELSE (IF i \in P THEN <<>> ELSE <<readings[i].location_label>>)
             \o LabelsOutside(readings, P, i + 1)

\* the first finding is the WARNING that lists the labels float() rejects
StartsWithUnparseableWarning ==
    /\ ret # <<>>
    /\ ret[1].severity = "WARNING"
    /\ ret[1].found_value =
           Join(LabelsOutside(arg.phase_readings,
                              ReadingsWith(arg.phase_readings, FloatAccepts), 1),
                <<",", " ">>)

\* C14, as the specification states it: given at least 2 readings of which
\* fewer than 2 parse, the result contains an INFO 'skipped' finding after the
\* single WARNING that lists the unparseable labels, and no ERROR.
C14_SkippedAfterWarning ==
    FewerThanTwoParse =>
        /\ StartsWithUnparseableWarning
        /\ \E i \in 2..Len(ret) : ret[i].severity = "INFO"
        /\ ~HasError(ret)

\* C14, as the code has it: given at least 2 readings of which float() accepts
\* fewer than 2, the result is exactly one finding, the WARNING that lists the
\* labels of the readings float() rejects; there is no INFO 'skipped' finding
\* and no ERROR.
C14_WarningOnly ==
    FewerThanTwoParse => (StartsWithUnparseableWarning /\ Len(ret) = 1)

\* three readings of which one parses
C14_Witness ==
    /\ FewerThanTwoParse
    /\ Len(arg.phase_readings) = 3
    /\ ReadingsWith(arg.phase_readings, FloatAccepts) = {2}
    /\ Len(ret) = 1
    /\ ret[1].found_value = <<"L", "1", ",", " ", "L", "3">>


(***************************************************************************)
(* validate_grounding_resistance                                           *)
(***************************************************************************)
ResistanceDone == ValidatorDone("validate_grounding_resistance")

\* the severity the claimed table gives a resistance field, where Numeric
\* says which values carry a resistance
ResistanceSeverity(field, Numeric(_)) ==
    IF Blank(field) \/ ~Numeric(field.value) THEN "WARNING"
    ELSE IF NumberOf(field.value) < 0 THEN "WARNING"
    ELSE IF NumberOf(field.value) > 10 * Scale THEN "ERROR"
    ELSE IF NumberOf(field.value) > 5 * Scale THEN "WARNING"
    ELSE "INFO"

\* C15: validate_grounding_resistance returns exactly one finding: WARNING
\* when the resistance is absent, null, blank, not a number or negative,
\* otherwise ERROR iff it is above 10.0, WARNING iff it is in (5.0, 10.0]
\* and INFO iff it is in [0, 5.0].
C15_ResistanceTable ==
    ResistanceDone =>
        /\ Len(ret) = 1
        /\ ret[1].severity = ResistanceSeverity(arg.grounding.resistance_value, IsNumeric)

\* The table holds for every resistance that is not NaN.
C15_ResistanceTableWithoutNaN ==
    (ResistanceDone /\ (Blank(arg.grounding.resistance_value)
                        \/ FloatOf(arg.grounding.resistance_value.value).kind # "nan")) =>
        /\ Len(ret) = 1
        /\ ret[1].severity = ResistanceSeverity(arg.grounding.resistance_value, IsNumeric)


(***************************************************************************)
(* validate_test_method                                                    *)
(***************************************************************************)
TestMethodDone == ValidatorDone("validate_test_method")

NewContext == <<"n", "e", "w">>

ExistingContext == <<"e", "x", "i", "s", "t", "i", "n", "g">>

\* the entries of the table the method names, by key or by alias
MethodEntries(field) ==
    {k \in 1..Len(VALID_TEST_METHODS) :
        \/ VALID_TEST_METHODS[k].key = normalize_method(field.value)
        \/ \E a \in 1..Len(VALID_TEST_METHODS[k].aliases) :
               normalize_method(VALID_TEST_METHODS[k].aliases[a])
                   = normalize_method(field.value)}

ContextOf(field) == Strip(Lower(field.value))

\* the step of the decision order that settles the call, 1 to 6
MethodStep(method, context) ==
    IF Blank(method) THEN 1
    ELSE IF MethodEntries(method) = {} THEN 2
    ELSE IF Blank(context) THEN 3
    ELSE IF \/ ContextOf(context) = NewContext
               /\ \E k \in MethodEntries(method) : ~VALID_TEST_METHODS[k].new_ok
            \/ ContextOf(context) = ExistingContext
               /\ \E k \in MethodEntries(method) : ~VALID_TEST_METHODS[k].existing_ok
         THEN 4
    ELSE IF ContextOf(context) \notin {NewContext, ExistingContext} THEN 5
    ELSE 6

StepSeverity(step) == IF step = 1 THEN "ERROR" ELSE IF step = 6 THEN "INFO" ELSE "WARNING"

\* the step a finding reports, read from what it says was expected
StepReported(finding) ==
    LET expected == finding.expected_value[1]
    IN  IF expected = "Documented test method (e.g., fall-of-potential, clamp-on)" THEN 1
        ELSE IF expected = "Recognized method: fall-of-potential, slope, clamp-on, attached-rod, star-delta"
        THEN 2
        ELSE IF expected = "Installation type context (new or existing)" THEN 3
        ELSE IF expected \in {"fall-of-potential or equivalent for new installations",
                              "Appropriate method for existing installation testing"}
        THEN 4
        ELSE IF expected = "Installation type: 'new' or 'existing'" THEN 5
        ELSE IF expected = "Valid method for " THEN 6
        ELSE 0

ClampOnForms == {<<"c", "l", "a", "m", "p", "-", "o", "n">>, <<"c", "l", "a", "m", "p">>}

\* C16: validate_test_method returns exactly one finding, settled by the
\* first step that applies: (1) blank method, ERROR; (2) unrecognized
\* method, WARNING; (3) blank installation type, WARNING; (4) a context the
\* method is not fit for, WARNING; (5) any other context, WARNING; (6) INFO.
\* Among recognized methods with context new or existing, the finding is a
\* WARNING exactly for clamp-on and its aliases with new, and INFO otherwise.
C16_DecisionOrder ==
    TestMethodDone =>
        LET method  == arg.grounding.test_method
            context == arg.grounding.installation_type
            step    == MethodStep(method, context)
        IN  /\ Len(ret) = 1
            /\ ret[1].severity = StepSeverity(step)
            /\ StepReported(ret[1]) = step
            /\ (Blank(method) => ret[1].severity = "ERROR")
            /\ (/\ ~Blank(method) /\ MethodEntries(method) # {}
                /\ ~Blank(context)
                /\ ContextOf(context) \in {NewContext, ExistingContext}) =>
                   /\ ret[1].severity \in {"WARNING", "INFO"}
                   /\ ret[1].severity = "WARNING" <=>
                          /\ normalize_method(method.value) \in ClampOnForms
                          /\ ContextOf(context) = NewContext

\* an alias of clamp-on, written in capitals, on a new installation
C16_Witness ==
    /\ TestMethodDone
    /\ arg.grounding.test_method.present
    /\ arg.grounding.test_method.value = <<"C", "L", "A", "M", "P", " ", "O", "N">>
    /\ arg.grounding.installation_type.present
    /\ arg.grounding.installation_type.value = <<" ", "N", "e", "w", " ">>
    /\ Len(ret) = 1
    /\ ret[1].severity = "WARNING"
    /\ StepReported(ret[1]) = 4


(***************************************************************************)
(* validate_test_voltage                                                   *)
(***************************************************************************)
VoltageDone == ValidatorDone("validate_test_voltage")

\* the field carries a value that Numeric takes for a number
Carries(field, Numeric(_)) == ~Unvalued(field) /\ Numeric(field.value)

\* the voltage class of a rating: 1 up to 250 V, 2 up to 500 V, 3 up to
\* 1000 V, 4 above
ClassOf(volts) ==
    IF volts <= 250 * Scale THEN 1
    ELSE IF volts <= 500 * Scale THEN 2
    ELSE IF volts <= 1000 * Scale THEN 3
    ELSE 4

\* recommended and maximum safe test voltage of each class, in volts
RecommendedTest == <<500, 1000, 1000, 2500>>

MaxSafeTest == <<500, 1000, 2500, 5000>>

VoltageSeverity(rating, field) ==
    LET class == ClassOf(NumberOf(rating.value))
    IN  IF NumberOf(field.value) > MaxSafeTest[class] * Scale THEN "ERROR"
        ELSE IF NumberOf(field.value) < RecommendedTest[class] * Scale THEN "WARNING"
        ELSE "INFO"

VoltageTable(megger, findings) ==
    /\ Len(findings) = 1
    /\ findings[1].severity =
           IF /\ Carries(megger.equipment_voltage_rating, IsNumeric)
              /\ Carries(megger.test_voltage, IsNumeric)
           THEN VoltageSeverity(megger.equipment_voltage_rating, megger.test_voltage)
           ELSE "WARNING"

\* C17: validate_test_voltage returns exactly one finding: WARNING when the
\* rating or the test voltage is absent, null or not a number; otherwise,
\* with the class of the rating (250, 500 and 1000 belong to the lower
\* class), ERROR iff the test voltage is above the maximum safe voltage,
\* else WARNING iff it is below the recommended voltage, else INFO.
C17_VoltageTable == VoltageDone => VoltageTable(arg.megger, ret)

\* The table holds when neither value is NaN.
C17_VoltageTableWithoutNaN ==
    (VoltageDone /\ \A f \in {arg.megger.equipment_voltage_rating, arg.megger.test_voltage} :
                        Unvalued(f) \/ FloatOf(f.value).kind # "nan") =>
        VoltageTable(arg.megger, ret)

\* A row is found for every rating float() accepts.
C17_RowForEveryRating ==
    (VoltageDone /\ Carries(arg.megger.equipment_voltage_rating, FloatAccepts)
                 /\ Carries(arg.megger.test_voltage, FloatAccepts)) =>
        ret[1].field_name = "test_voltage"


(***************************************************************************)
(* validate_insulation_resistance                                          *)
(***************************************************************************)
InsulationDone == ValidatorDone("validate_insulation_resistance")

\* the minimum resistance of each voltage class, in hundredths of a megohm
MinResistance == <<25, 50, 100, 100>>

InsulationTable(megger, findings) ==
    LET rating == megger.equipment_voltage_rating
        field  == megger.insulation_resistance
    IN  /\ Len(findings) = 1
        /\ findings[1].severity =
               IF ~Carries(rating, IsNumeric) \/ ~Carries(field, IsNumeric) THEN "WARNING"
               ELSE IF NumberOf(field.value) < MinResistance[ClassOf(NumberOf(rating.value))]
               THEN "WARNING"
               ELSE "INFO"

\* C18: validate_insulation_resistance returns exactly one finding and never
\* an ERROR: WARNING when the rating or the resistance is absent, null or not
\* a number, WARNING when the resistance is below the minimum of the voltage
\* class (0.25 up to 250 V, 0.5 up to 500 V, 1.0 above), and INFO iff the
\* resistance is at least that minimum.
C18_InsulationTable ==
    InsulationDone => (~HasError(ret) /\ InsulationTable(arg.megger, ret))

\* No input gives an ERROR finding.
C18_NeverError == InsulationDone => (Len(ret) = 1 /\ ~HasError(ret))

\* The table holds when neither value is NaN.
C18_InsulationTableWithoutNaN ==
    (InsulationDone
        /\ \A f \in {arg.megger.equipment_voltage_rating, arg.megger.insulation_resistance} :
               Unvalued(f) \/ FloatOf(f.value).kind # "nan") =>
        InsulationTable(arg.megger, ret)


(***************************************************************************)
(* Every validator reports                                                 *)
(***************************************************************************)
ValidatorNames ==
    {"validate_calibration", "validate_serial_consistency", "validate_camera_config",
     "validate_phase_delta", "validate_grounding_calibration",
     "validate_grounding_resistance", "validate_test_method",
     "validate_megger_calibration", "validate_test_voltage",
     "validate_insulation_resistance"}

\* C19: every validator returns at least one finding, validate_serial_consistency
\* and validate_phase_delta for the empty list too; the one exception is
\* validate_camera_config, which returns the empty list only for null input.
C19_AtLeastOneFinding ==
    (pc = "done" /\ op \in ValidatorNames) =>
        (ret = <<>> <=> (op = "validate_camera_config" /\ arg.thermography = <<>>))

\* the empty list of phase readings is answered with one finding
C19_Witness ==
    /\ ValidatorDone("validate_phase_delta")
    /\ arg.phase_readings = <<>>
    /\ Len(ret) = 1

\* The empty list of serial numbers and an absent calibration sub-object are
\* answered with one finding as well.
C19_EmptyInputsReport ==
    /\ (ValidatorDone("validate_serial_consistency") /\ arg.serial_numbers = <<>>)
           => Len(ret) = 1
    /\ (ValidatorDone("validate_megger_calibration") /\ arg.megger.calibration = <<>>)
           => Len(ret) = 1
    /\ (ValidatorDone("validate_grounding_calibration") /\ arg.grounding.calibration = <<>>)
           => Len(ret) = 1


(***************************************************************************)
(* validate_grounding_calibration, validate_megger_calibration             *)
(***************************************************************************)
\* a wrapper has returned
WrapperDone(name) == ValidatorDone(name)

\* exactly one WARNING about the missing sub-object, carrying the rule_id of
\* the call and nothing of any date
MissingCalibrationFinding(findings, field_name, rule_id) ==
    /\ Len(findings) = 1
    /\ findings[1].severity = "WARNING"
    /\ findings[1].field_name = field_name
    /\ findings[1].rule_id = rule_id
    /\ findings[1].message.args = <<>>
    /\ findings[1].found_value = NoneStr
    /\ findings[1].expected_value = NoneStr
    /\ findings[1].location = NoLocation

WrapperContract(data, field_name) ==
    IF data.calibration = <<>>
    THEN MissingCalibrationFinding(ret, field_name, arg.rule_id)
    ELSE ret = validate_calibration(data.calibration[1], arg.test_date, arg.rule_id)

\* C20: without a calibration sub-object validate_grounding_calibration and
\* validate_megger_calibration return exactly one WARNING with field_name
\* 'grounding_calibration' respectively 'megger_calibration' and the rule_id
\* of the call, whatever the test date; with one, they return what
\* validate_calibration(calibration, test_date, rule_id) returns.
C20_WrappersDelegate ==
    /\ WrapperDone("validate_grounding_calibration") =>
           WrapperContract(arg.grounding, "grounding_calibration")
    /\ WrapperDone("validate_megger_calibration") =>
           WrapperContract(arg.megger, "megger_calibration")

\* a grounding calibration that expired before the test, under a rule_id
\* other than the defaults: the ERROR of validate_calibration comes back
C20_Witness ==
    /\ WrapperDone("validate_grounding_calibration")
    /\ arg.grounding.calibration # <<>>
    /\ arg.rule_id = "AUDIT-07"
    /\ Len(ret) = 1
    /\ ret[1].severity = "ERROR"
    /\ ret[1].rule_id = "AUDIT-07"
    /\ ret[1].field_name # "grounding_calibration"


(***************************************************************************)
(* The rule_id of validate_calibration                                     *)
(***************************************************************************)
\* the rule ids of the instrument types, and strings that are none of them
RuleIdLabels == CalibrationRuleIds \cup {"AUDIT-07", ""}

\* the findings with their rule_id replaced
Relabelled(findings, rule_id) ==
    [i \in 1..Len(findings) |-> [findings[i] EXCEPT !.rule_id = rule_id]]

\* C21: the rule_id of validate_calibration is a label only: the call with
\* any other rule_id, on the same calibration and test date, returns the
\* same findings but for the rule_id they echo.
C21_RuleIdIsLabel ==
    CalibrationDone =>
        /\ \A i \in 1..Len(ret) : ret[i].rule_id = arg.rule_id
        /\ \A r \in RuleIdLabels :
               validate_calibration(arg.calibration, arg.test_date, r) = Relabelled(ret, r)

\* an expired certificate checked under the thermography rule
C21_Witness ==
    /\ CalibrationDone
    /\ arg.rule_id = "THERMO-03"
    /\ Len(ret) = 1
    /\ ret[1].severity = "ERROR"
    /\ ret[1].rule_id = "THERMO-03"
    /\ validate_calibration(arg.calibration, arg.test_date, "VAL-01")[1].severity = "ERROR"


(***************************************************************************)
(* validate_phase_delta with readings that do not parse                    *)
(***************************************************************************)
\* the readings at the positions in P, in input order
RECURSIVE ReadingsAt(_, _, _)
ReadingsAt(readings, P, i) ==
    IF i > Len(readings) THEN <<>>
    ELSE (IF i \in P THEN <<readings[i]>> ELSE <<>>) \o ReadingsAt(readings, P, i + 1)

\* some readings are null or rejected by float(), and at least 2 are accepted
SomeUnparseableTwoParse ==
    /\ PhaseDone
    /\ Cardinality(ReadingsWith(arg.phase_readings, FloatAccepts)) >= 2
    /\ ReadingsWith(arg.phase_readings, FloatAccepts) # 1..Len(arg.phase_readings)

\* C29: given readings of which some are null or do not parse while at least
\* 2 parse, validate_phase_delta returns exactly two findings: the WARNING
\* that lists the labels of all the offending readings, then the threshold
\* finding of the parsed readings alone, the very finding the call returns
\* when the offending readings are left out.
C29_WarningThenThreshold ==
    SomeUnparseableTwoParse =>
        /\ Len(ret) = 2
        /\ StartsWithUnparseableWarning
        /\ ret[1].field_name = "phase_temperatures"
        /\ ret[2].field_name = "phase_delta"
        /\ <<ret[2]>> =
               validate_phase_delta(
                   ReadingsAt(arg.phase_readings,
                              ReadingsWith(arg.phase_readings, FloatAccepts), 1),
                   arg.rule_id)

\* two readings that do not parse among two that do: the WARNING about L1 and
\* L3, then the ERROR about the delta of 15.25
C29_Witness ==
    /\ PhaseDone
    /\ Len(arg.phase_readings) = 4
    /\ arg.phase_readings[1].value.value = NoneStr
    /\ arg.phase_readings[2].value.value = <<"1", "0">>
    /\ arg.phase_readings[3].value.value = <<"x">>
    /\ arg.phase_readings[4].value.value = <<"2", "5", ".", "2", "5">>
    /\ Len(ret) = 2
    /\ ret[1].found_value = <<"L", "1", ",", " ", "L", "3">>
    /\ ret[2].severity = "ERROR"
    /\ ret[2].field_name = "phase_delta"

(***************************************************************************)
(* Properties of the validation of one extraction (SpecValidate)           *)
(***************************************************************************)
\* request r was a validation and was answered 200
Validated(r) ==
    /\ r \in DOMAIN requests
    /\ requests[r].kind = "validate"
    /\ requests[r].pc = "done"
    /\ requests[r].response[1].status_code = 200

\* the sequences of a sequence, joined
RECURSIVE Joined(_)
Joined(seqs) == IF seqs = <<>> THEN <<>> ELSE Head(seqs) \o Joined(Tail(seqs))

\* what the claim lists, in its order, for an extraction and a test date
ClaimedSections(e, d) ==
    << Joined([i \in 1..Len(e.calibrations) |->
                   validate_calibration(e.calibrations[i], d, "VAL-01")]),
       validate_serial_consistency(collect_serial_numbers(e.calibrations), "VAL-02"),
       IF e.thermography # <<>> THEN validate_camera_config(e.thermography, "THERMO-01")
       ELSE <<>>,
       IF e.thermography # <<>> /\ e.thermography[1].phase_readings # <<>>
       THEN validate_phase_delta(e.thermography[1].phase_readings, "THERMO-02") ELSE <<>>,
       Joined([i \in 1..Len(e.calibrations) |->
                   IF /\ e.calibrations[i].instrument_type # NoneStr
                      /\ Contains(Lower(e.calibrations[i].instrument_type),
                                  <<"t", "h", "e", "r", "m", "o">>)
                   THEN validate_calibration(e.calibrations[i], d, "THERMO-03")
                   ELSE <<>>]),
       IF e.grounding # <<>>
       THEN validate_grounding_calibration(e.grounding[1], d, "GROUND-01")
                \o validate_grounding_resistance(e.grounding[1], "GROUND-02")
                \o validate_test_method(e.grounding[1], "GROUND-03")
       ELSE <<>>,
       IF e.megger # <<>>
       THEN validate_megger_calibration(e.megger[1], d, "MEGGER-01")
                \o validate_test_voltage(e.megger[1], "MEGGER-02")
                \o validate_insulation_resistance(e.megger[1], "MEGGER-03")
       ELSE <<>> >>

\* the record a validation stored is the claimed list with its status, and
\* the response carries the same list and status
StoredAndReturned(stored, response, e) ==
    /\ stored.findings = Joined(ClaimedSections(e, stored.evidence.test_date))
    /\ stored.status = compute_status(stored.findings)
    /\ response.status = stored.status
    /\ Len(response.findings) = Len(stored.findings)
    /\ \A i \in 1..Len(stored.findings) :
           response.findings[i] = finding_to_response(stored.findings[i])

\* C22: the list of findings of a validation is the concatenation, in the
\* fixed order, of the VAL-01 findings of the calibrations, the VAL-02
\* findings, THERMO-01 and THERMO-02 when thermography (and phase readings)
\* are present, the THERMO-03 findings of the thermography calibrations, the
\* three GROUND findings and the three MEGGER findings; the status is that
\* of exactly this list, and the list stored is the list returned
C22_FixedOrderOneList ==
    Validated(1) =>
        /\ Len(validation_results) = 2
        /\ StoredAndReturned(validation_results[2], requests[1].response[1].body[1],
                             validation_results[1].extraction[1])

RuleIdsOf(findings) == [i \in 1..Len(findings) |-> findings[i].rule_id]

\* every section of the claim has findings, and two calibrations are checked
C22_Witness ==
    /\ Validated(1)
    /\ Len(validation_results) = 2
    /\ Len(validation_results[1].extraction[1].calibrations) = 2
    /\ RuleIdsOf(validation_results[2].findings)
           = <<"VAL-01", "VAL-01", "VAL-02", "THERMO-01", "THERMO-02", "THERMO-02", "THERMO-03",
               "GROUND-01", "GROUND-02", "GROUND-03", "MEGGER-01", "MEGGER-02", "MEGGER-03">>
    /\ validation_results[2].status = "REJECTED"

\* the rule ids that start with "THERMO-"
ThermoRuleIds == {"THERMO-01", "THERMO-02", "THERMO-03"}

\* the positions of the findings under the rule ids of a set
PositionsOf(findings, rule_ids) == {i \in 1..Len(findings) : findings[i].rule_id \in rule_ids}

\* request 1 validated an extraction without a thermography sub-record
ValidatedWithoutThermography ==
    /\ Validated(1)
    /\ validation_results[1].extraction[1].thermography = <<>>

\* the calibrations of an extraction whose instrument_type has "thermo" in it
ThermoCalibrations(e) ==
    {i \in 1..Len(e.calibrations) :
         /\ e.calibrations[i].instrument_type # NoneStr
         /\ Contains(Lower(e.calibrations[i].instrument_type),
                     <<"t", "h", "e", "r", "m", "o">>)}

\* C23: the validation of an extraction without a thermography sub-record
\* produces no finding whose rule_id starts with "THERMO-"
C23_NoThermoFindings ==
    ValidatedWithoutThermography =>
        PositionsOf(validation_results[2].findings, ThermoRuleIds) = {}

\* what holds of such a validation: there is no THERMO-01 and no THERMO-02
\* finding, and there is one THERMO-03 finding for every calibration entry
\* whose instrument_type contains "thermo"
C23_NoCameraOrPhaseFindings ==
    ValidatedWithoutThermography =>
        /\ PositionsOf(validation_results[2].findings, {"THERMO-01", "THERMO-02"}) = {}
        /\ Cardinality(PositionsOf(validation_results[2].findings, {"THERMO-03"}))
               = Cardinality(ThermoCalibrations(validation_results[1].extraction[1]))

\* no thermography sub-record, grounding and megger present, and a THERMO-03
\* finding for the calibration of the camera
C23_ThermoCalibrationAlone ==
    /\ ValidatedWithoutThermography
    /\ validation_results[1].extraction[1].grounding # <<>>
    /\ validation_results[1].extraction[1].megger # <<>>
    /\ PositionsOf(validation_results[2].findings, {"THERMO-03"}) # {}

GroundRuleIds == {"GROUND-01", "GROUND-02", "GROUND-03"}

MeggerRuleIds == {"MEGGER-01", "MEGGER-02", "MEGGER-03"}

\* the findings have one finding under each rule id of the set when the
\* sub-record is present, and none under any of them when it is absent
OneEachIffPresent(findings, rule_ids, sub_record) ==
    \A rule_id \in rule_ids :
        Cardinality(PositionsOf(findings, {rule_id})) = IF sub_record # <<>> THEN 1 ELSE 0

\* C24: a validation result has GROUND-* findings if and only if the
\* extraction has a grounding sub-record, and then exactly one of each of
\* GROUND-01, GROUND-02, GROUND-03; likewise for MEGGER-* and the megger
\* sub-record; whatever else the extraction holds
C24_OneEachIffPresent ==
    Validated(1) =>
        /\ OneEachIffPresent(validation_results[2].findings, GroundRuleIds,
                             validation_results[1].extraction[1].grounding)
        /\ OneEachIffPresent(validation_results[2].findings, MeggerRuleIds,
                             validation_results[1].extraction[1].megger)

\* thermography and grounding validated together, without megger: the three
\* GROUND findings next to the THERMO findings, GROUND-01 being the warning
\* about the missing calibration
C24_Witness ==
    /\ Validated(1)
    /\ validation_results[1].extraction[1].thermography # <<>>
    /\ validation_results[1].extraction[1].grounding # <<>>
    /\ validation_results[1].extraction[1].grounding[1].calibration = <<>>
    /\ validation_results[1].extraction[1].megger = <<>>
    /\ PositionsOf(validation_results[2].findings, {"THERMO-01"}) # {}
    /\ Cardinality(PositionsOf(validation_results[2].findings, GroundRuleIds)) = 3
    /\ PositionsOf(validation_results[2].findings, MeggerRuleIds) = {}

\* each of the six validators of grounding and megger returns one finding,
\* for every input of the validators and not only those of the extractions
C24_OneFindingPerValidator ==
    (/\ pc = "done"
     /\ op \in {"validate_grounding_calibration", "validate_grounding_resistance",
                "validate_test_method", "validate_megger_calibration",
                "validate_test_voltage", "validate_insulation_resistance"})
        => Len(ret) = 1 /\ ret[1].rule_id = arg.rule_id

(***************************************************************************)
(* Properties of the records of a document (SpecDocuments)                 *)
(***************************************************************************)
\* the requests that were validations answered 200
Validations == {r \in DOMAIN requests : Validated(r)}

\* request r finishes a validation in this step
FinishesValidation(r) == requests[r].pc = "validating" /\ requests'[r].pc = "done"

\* the record is the one the response of request r describes
RecordOf(record, request) ==
    /\ record.document_id = request.document_id
    /\ record.document_id = request.response[1].body[1].document_id
    /\ record.status = request.response[1].body[1].status
    /\ record.status = compute_status(record.findings)
    /\ request.response[1].body[1].findings
           = [i \in 1..Len(record.findings) |-> finding_to_response(record.findings[i])]
    /\ record.evidence.document_id = request.document_id
    /\ record.evidence.findings_count = Len(record.findings)

\* no step modifies or removes a record, and a step that finishes a
\* validation adds one record, the one of that validation
AppendOnlyStep ==
    /\ Len(validation_results') >= Len(validation_results)
    /\ SubSeq(validation_results', 1, Len(validation_results)) = validation_results
    /\ \A r \in DOMAIN requests :
           FinishesValidation(r) =>
               /\ Len(validation_results') = Len(validation_results) + 1
               /\ RecordOf(validation_results'[Len(validation_results')], requests'[r])

\* n successful validations of a document, n > 0, leave n + 1 records or more
RecordsCount ==
    \A d \in DOMAIN documents :
        LET n == Cardinality({r \in Validations : requests[r].document_id = d})
        IN  n > 0 => Cardinality(ResultsOf(d)) >= n + 1

\* C25: validation records are append-only: whatever the sequence or
\* interleaving of the requests, a successful validation adds exactly one
\* record that holds its own status, findings and evidence, no record
\* stored before is modified or removed, and n successful validations after
\* an extraction leave at least n + 1 records
C25_AppendOnly == [][AppendOnlyStep /\ RecordsCount']_vars

\* two validations of the same document run in parallel: one has read the
\* record of the extraction and has not stored its own yet, the other has
\* read it too and has stored its record
C25_Witness ==
    \E r, q \in DOMAIN requests :
        /\ Validated(q)
        /\ requests[r].pc = "validating"
        /\ requests[r].document_id = requests[q].document_id
        /\ requests[r].read[1] = validation_results[1]
        /\ Len(validation_results) = 2
        /\ validation_results[1].status = "PENDING"
        /\ validation_results[2].status = "REJECTED"

\* request r is a GET of the extraction answered in this step, made by the
\* owner of a document that has records
GetsExtraction(r) ==
    /\ requests[r].pc = "idle"
    /\ requests'[r].kind = "get_extraction"
    /\ DocumentAccess(requests'[r]) = 0
    /\ ResultsOf(requests'[r].document_id) # {}

\* C30: after a document has been extracted, GET /documents/{id}/extraction
\* by its owner returns the extraction stored in the latest record of the
\* document, however many records extract and validate have appended
C30_LatestExtraction ==
    [][\A r \in DOMAIN requests :
           GetsExtraction(r) =>
               /\ requests'[r].response[1].status_code = 200
               /\ requests'[r].response[1].body
                      = LatestResult(requests'[r].document_id).extraction]_vars

\* what holds: the extraction of the record is returned as long as the
\* document has one record, and the request fails once it has more
C30_OnlyRecordElseError ==
    [][\A r \in DOMAIN requests :
           GetsExtraction(r) =>
               IF Cardinality(ResultsOf(requests'[r].document_id)) = 1
               THEN /\ requests'[r].response[1].status_code = 200
                    /\ requests'[r].response[1].body
                           = LatestResult(requests'[r].document_id).extraction
               ELSE requests'[r].response[1].status_code = 500]_vars

\* the extraction was asked for after an extraction and a validation
C30_AfterValidation ==
    \E r \in DOMAIN requests :
        /\ requests[r].kind = "get_extraction"
        /\ requests[r].pc = "done"
        /\ requests[r].response[1].status_code = 500
        /\ Len(validation_results) = 2
        /\ Validations # {}

(***************************************************************************)
(* Properties of the lockout (SpecLockout)                                 *)
(***************************************************************************)
\* request r was answered with the status code
Answered(r, kind, status_code) ==
    /\ requests[r].kind = kind
    /\ requests[r].pc = "done"
    /\ requests[r].response[1].status_code = status_code

\* the logins of the account that failed on the password
FailedLogins(email) ==
    {r \in DOMAIN requests : Answered(r, "login", 401) /\ requests[r].user = email
                                 /\ requests[r].response[1].body = <<"password">>}

\* no login of the account has succeeded and no administrator has unlocked it
NeverReset(email) ==
    \A r \in DOMAIN requests :
        /\ ~(Answered(r, "login", 200) /\ requests[r].user = email)
        /\ ~Answered(r, "unlock", 204)

\* the account is locked at the time
Locked(email) == users[email].locked_until # <<>> /\ users[email].locked_until[1] > now

\* after MAX_FAILED_ATTEMPTS failures and nothing that resets them, the
\* account has been locked
LockedAfterFailures ==
    \A email \in DOMAIN users :
        (NeverReset(email) /\ Cardinality(FailedLogins(email)) >= MAX_FAILED_ATTEMPTS)
            => users[email].locked_until # <<>>

\* request r, a login of the account, arrives in this step
LoginArrives(r, email) ==
    requests[r].pc = "idle" /\ requests'[r].kind = "login" /\ requests'[r].user = email

\* a login that arrives while the account is locked is answered 403 and
\* changes nothing of the account
LockedRejects ==
    \A r \in DOMAIN requests, email \in DOMAIN users :
        (LoginArrives(r, email) /\ Locked(email))
            => /\ requests'[r].pc = "done"
               /\ requests'[r].response[1].status_code = 403
               /\ users' = users

\* a login that succeeds in this step leaves the counters of the account reset
SuccessResets ==
    \A r \in DOMAIN requests :
        (requests[r].pc = "committing" /\ requests'[r].pc = "done")
            => /\ users'[requests[r].user].failed_login_attempts = 0
               /\ users'[requests[r].user].locked_until = <<>>

\* C26: once an account has 3 failed password attempts with no successful
\* login or unlock in between, it is locked; every login while locked_until
\* is in the future gets 403, the right password included, and does not change
\* failed_login_attempts; a successful login sets failed_login_attempts to 0
\* and clears locked_until
C26_Lockout == [][LockedAfterFailures' /\ LockedRejects /\ SuccessResets]_vars

\* three failures one after the other have locked the account, and a login
\* with the right password was refused
C26_LockedOut ==
    /\ Cardinality(FailedLogins("alice")) = 3
    /\ Locked("alice")
    /\ users["alice"].failed_login_attempts = 3
    /\ \E r \in DOMAIN requests : Answered(r, "login", 403)

\* three failures at the same time have not locked the account
C26_ThreeFailuresNoLock ==
    /\ Cardinality(FailedLogins("alice")) = 3
    /\ NeverReset("alice")
    /\ users["alice"].locked_until = <<>>
    /\ users["alice"].failed_login_attempts = 1

(***************************************************************************)
(* Properties of the sessions (SpecSessions, SpecRevocation)               *)
(***************************************************************************)
\* no user has more than MAX_CONCURRENT_SESSIONS active sessions
ActiveWithinLimit ==
    \A email \in DOMAIN users : Len(ActiveSessions(email, now)) <= MAX_CONCURRENT_SESSIONS

\* the sessions that this step revokes
RevokedByStep == {i \in 1..Len(sessions) : ~sessions[i].is_revoked /\ sessions'[i].is_revoked}

\* the oldest of a sequence of sessions, all but the newest n
AllButNewest(active, n) == {active[i] : i \in 1..(Len(active) - n)}

\* a login that stores its session in this step while the user has
\* MAX_CONCURRENT_SESSIONS active sessions or more revokes the oldest of them,
\* as many as leave room for the new one; and no login revokes a session
\* newer than one it leaves active
EvictsOldest ==
    \A r \in DOMAIN requests :
        (requests[r].pc = "committing" /\ requests'[r].pc = "done")
            => /\ Len(sessions') = Len(sessions) + 1
               /\ AllButNewest(ActiveSessions(requests[r].user, now),
                               MAX_CONCURRENT_SESSIONS - 1) \subseteq RevokedByStep
               /\ \A i \in RevokedByStep, j \in 1..Len(sessions) :
                      (/\ sessions[j].user_id = requests[r].user
                       /\ ~sessions'[j].is_revoked
                       /\ sessions[j].expires_at > now) => i < j

\* C27: after any sequence of logins and logouts of a user, however they
\* interleave, the user has at most 3 active sessions; a login made while 3
\* are active revokes the oldest by created_at before it stores the new one,
\* and never a newer one
C27_SessionLimit == [][ActiveWithinLimit' /\ EvictsOldest]_vars

\* two logins at the same time have left four active sessions
C27_FourActive ==
    /\ Len(ActiveSessions("alice", now)) = 4
    /\ \A i \in 1..Len(sessions) : ~sessions[i].is_revoked

\* one login after the other: the fourth has revoked the oldest session
C27_OldestEvicted ==
    /\ Len(sessions) = 4
    /\ sessions[1].is_revoked
    /\ Len(ActiveSessions("alice", now)) = 3
    /\ \A r \in DOMAIN requests : requests[r].kind \in {"login", "none"}

\* request r presents a token in this step, to an endpoint of one of the
\* kinds, and a session of the token has been revoked
PresentsRevoked(r, kinds) ==
    /\ requests[r].pc = "idle"
    /\ requests'[r].pc = "done"
    /\ requests'[r].kind \in kinds
    /\ \E i \in SessionsOf(requests'[r].read[1]) : sessions[i].is_revoked

\* the request is refused with 401 and nothing has changed
Refused(r) ==
    /\ requests'[r].response[1].status_code = 401
    /\ users' = users
    /\ sessions' = sessions

\* a revoked session stays revoked
NeverReactivated ==
    \A i \in 1..Len(sessions) : sessions[i].is_revoked => sessions'[i].is_revoked

\* the endpoints that take a token
TokenEndpoints == {"documents", "logout", "list_sessions", "change_password", "unlock"}

\* C28: once a session is revoked, every later request that presents its
\* token to an endpoint requiring authentication (documents, logout, session
\* listing, password change, admin) is refused with 401 and has no effect,
\* and a session never goes from revoked back to active
C28_RevokedTokenRejected ==
    [][/\ \A r \in DOMAIN requests : PresentsRevoked(r, TokenEndpoints) => Refused(r)
       /\ NeverReactivated]_vars

\* what holds: the endpoints behind require_auth and logout refuse the token
\* of a revoked session, and no session is reactivated
C28_RejectedByRequireAuth ==
    [][/\ \A r \in DOMAIN requests :
              PresentsRevoked(r, {"documents", "logout"}) => Refused(r)
       /\ NeverReactivated]_vars

\* after the logout of alice her token was refused by the documents, and
\* changed her password
C28_PasswordChangedAfterLogout ==
    \E r, q, p \in DOMAIN requests :
        /\ r < q
        /\ r < p
        /\ Answered(r, "logout", 204) /\ requests[r].user = "alice"
        /\ Answered(q, "documents", 401) /\ requests[q].user = "alice"
        /\ Answered(p, "change_password", 204) /\ requests[p].user = "alice"
        /\ users["alice"].password = "guess"


====
